---- MODULE Spec2Model ----
(***************************************************************************)
(* Model of science_jubilee: JubileeController (G-code transport, cached   *)
(* machine state, homing, gated moves, tool-exchange sequences) and        *)
(* JubileeManager (tool slots and the active tool).                        *)
(*                                                                         *)
(* Every public operation is synchronous and runs to completion on the     *)
(* calling thread, so each operation is one action.  Inside an operation   *)
(* the controller state, the board and the commands sent so far are        *)
(* threaded through a record m; a raised exception is m.err, and every     *)
(* statement after a raise is skipped until a handler catches it.          *)
(***************************************************************************)
EXTENDS Integers, Sequences, FiniteSets, TLC

VARIABLES
    simulated,             \* JubileeController.simulated
    session,               \* JubileeController.session: "None" or "open"
    axes_homed,            \* JubileeController.axes_homed (cached)
    absolute_positioning,  \* JubileeController._absolute_positioning (cached)
    axis_limits,           \* JubileeController._axis_limits (cached)
    configured_axes,       \* JubileeController._configured_axes (cached)
    board_homed,           \* board: move.axes[].homed
    board_abs,             \* board: TRUE after G90, FALSE after G91
    board_pos,             \* board: position of X, Y, Z, U
    mounted,               \* carriage: the tools locked on the head
    tools_list,            \* JubileeManager.tools_list (slot -> loaded?)
    active_tool_index,     \* JubileeManager.active_tool_index
    deck,                  \* JubileeManager.deck
    tool_offsets,          \* JubileeManager.tool_offsets (slot -> offset)
    crash_detection,       \* JubileeController.crash_detection
    xchg,                  \* the gcode() call in progress, request by request
    last                   \* the last call: its name, inputs, commands, error

vars == <<simulated, session, axes_homed, absolute_positioning, axis_limits,
          configured_axes, board_homed, board_abs, board_pos, mounted, tools_list,
          active_tool_index, deck, tool_offsets, crash_detection, xchg, last>>

ctlvars == <<simulated, session, axes_homed, absolute_positioning, axis_limits,
             configured_axes>>
boardvars == <<board_homed, board_abs, board_pos, mounted>>
mgrvars == <<tools_list, active_tool_index, deck, tool_offsets>>
gcodevars == <<crash_detection, xchg>>

-----------------------------------------------------------------------------
(* Values *)

\* Python None for an optional number: the empty tuple; a number v is <<v>>.
None == <<>>
Some(v) == <<v>>
IsNone(a) == a = <<>>
Val(a) == a[1]

Axes == <<"X", "Y", "Z", "U">>
AxisIndex(a) == CHOOSE i \in 1..4 : Axes[i] = a

\* The x, y, z, u arguments of a move.
T(x, y, z, u) == [x |-> x, y |-> y, z |-> z, u |-> u]

\* Exceptions: the Python class and what raised it.
NoErr == [cls |-> "none", why |-> "none"]
Err(c, w) == [cls |-> c, why |-> w]

\* Commands of the wire vocabulary.
Cmd(c) == [cmd |-> c, x |-> None, y |-> None, z |-> None, u |-> None,
           f |-> None, form |-> "text"]
G90 == Cmd("G90")
G91 == Cmd("G91")
M400 == Cmd("M400")
M114 == Cmd("M114")
M409Homed == Cmd("M409 K\"move.axes[].homed\"")
G28(a) == Cmd("G28 " \o a)
\* G92 <AXIS>0
G92(a) == Cmd("G92 " \o a \o "0")
M999 == Cmd("M999")
M119 == Cmd("M119")
\* G4 P<t> (milliseconds) or G4 S<t> (seconds)
G4(t, millis) ==
    [Cmd("G4") EXCEPT !.x = Some(t), !.form = IF millis THEN "P" ELSE "S"]
M409Axes == Cmd("M409 K\"move.axes[]\"")
M409Limits == Cmd("M409 K\"move.axes\"")
ToolLock == Cmd("M98 P\"0:/macros/tool_manager/tool_lock.g\"")
ToolUnlock == Cmd("M98 P\"0:/macros/tool_manager/tool_unlock.g\"")
\* G0: an axis word is present iff its value is not None; form is how the
\* numbers were written: "%.2f", or "str" (Python's str(), None included).
G0(x, y, z, u, f, form) ==
    [cmd |-> "G0", x |-> x, y |-> y, z |-> z, u |-> u, f |-> f, form |-> form]

\* How one gcode() call can end: the reply arrives; the request never reaches
\* the board; the board runs the command but no reply comes back.
FailKinds == {"lost", "noreply"}


-----------------------------------------------------------------------------
(* The board (Duet) as the commands of this program see it *)

AxisNames == {"X", "Y", "Z", "U"}

\* JubileeManager.MAX_TOOLS
MAX_TOOLS == 2

\* JubileeController.tool_parking_positions
tool_parking_positions ==
    [i \in 0..3 |->
       [x_park |-> CASE i = 0 -> 277 [] i = 1 -> 191 [] i = 2 -> 105 [] OTHER -> 19,
        y_clear |-> 280, y_park |-> 342, z_park |-> 150]]

\* The tools whose parking post holds the carriage at position pos.
ToolsAt(pos) ==
    {i \in DOMAIN tool_parking_positions :
       /\ pos["X"] = tool_parking_positions[i].x_park
       /\ pos["Y"] = tool_parking_positions[i].y_park}

\* G0: absolute targets replace the coordinate, relative ones add to it.
BoardMove(pos, isabs, c) ==
    LET arg == [a \in AxisNames |->
                  CASE a = "X" -> c.x [] a = "Y" -> c.y
                    [] a = "Z" -> c.z [] OTHER -> c.u]
    IN [a \in AxisNames |->
          IF IsNone(arg[a]) THEN pos[a]
          ELSE IF isabs THEN Val(arg[a]) ELSE pos[a] + Val(arg[a])]

\* What the board does when it runs command c.
BoardExec(m, c) ==
    CASE c = G90 -> [m EXCEPT !.board_abs = TRUE]
      [] c = G91 -> [m EXCEPT !.board_abs = FALSE]
      [] c.cmd = "G0" ->
           [m EXCEPT !.board_pos = BoardMove(m.board_pos, m.board_abs, c)]
      [] \E a \in AxisNames : c = G28(a) ->
           LET i == AxisIndex(CHOOSE a \in AxisNames : c = G28(a))
           IN IF i <= Len(m.board_homed)
              THEN [m EXCEPT !.board_homed[i] = TRUE]
              ELSE m
      [] \E a \in AxisNames : c = G92(a) ->
           LET a == CHOOSE a \in AxisNames : c = G92(a)
           IN [m EXCEPT !.board_pos[a] = 0,
                        !.board_homed =
                           [i \in 1..Len(@) |-> @[i] \/ i = AxisIndex(a)]]
      [] c = ToolLock ->
           [m EXCEPT !.mounted = @ \cup ToolsAt(m.board_pos)]
      [] c = ToolUnlock -> [m EXCEPT !.mounted = {}]
      [] c = M999 ->
           [m EXCEPT !.board_homed = [i \in 1..Len(@) |-> FALSE],
                     !.board_abs = TRUE]
      [] OTHER -> m

\* The axis letters and limits configured on the board.
BoardAxes == Axes
BoardLimits == <<<<0, 300>>, <<0, 350>>, <<0, 300>>, <<0, 200>>>>

\* A board with another number of axes reports as many letters, limits and
\* homed flags as it has axes; board_homed has one flag for each.
AxisLetters == <<"X", "Y", "Z", "U", "V", "W", "A", "B", "C">>
AxesOn(m) == SubSeq(AxisLetters, 1, Len(m.board_homed))
LimitsOn(m) ==
    [i \in 1..Len(m.board_homed) |->
        IF i <= Len(BoardLimits) THEN BoardLimits[i] ELSE <<0, 100>>]

\* The reply text of the board, already decoded.
BoardReply(m, c) ==
    CASE c = M409Homed -> m.board_homed
      [] c = M114 -> m.board_pos
      [] c = M409Axes -> AxesOn(m)
      [] c = M409Limits -> LimitsOn(m)
      [] OTHER -> <<>>

-----------------------------------------------------------------------------
(* JubileeController *)

\* Bind(e, LAMBDA r : body): body with r naming the value of e.
Bind(v, Op(_)) == CHOOSE r \in {Op(x) : x \in {v}} : TRUE

Raised(m) == m.err # NoErr
Raise(m, c, w) == [m EXCEPT !.err = Err(c, w)]
\* A gcode() call in the log: the command, how the exchange ended ("ok",
\* "lost", "noreply", or "sim" when nothing was sent) and the decoded reply.
\* "garbled" is an answer whose text is not JSON, "empty" one whose JSON
\* has an empty result.
Sent(c, st, reply) == [c |-> c, st |-> st, reply |-> reply]

\* gcode(), simulated: nothing is sent; canned replies for M409, M114 and
\* M119.
GcodeSimulated(m, c) ==
    LET reply == CASE c \in {M409Homed, M409Axes, M409Limits} ->
                        <<TRUE, TRUE, TRUE, TRUE>>
                   [] c = M114 -> [a \in AxisNames |-> 0]
                   [] c = M119 -> [a \in AxisNames |-> "open"]
                   [] OTHER -> <<>>
    IN [m EXCEPT !.log = Append(@, Sent(c, "sim", reply)), !.ret = reply]

\* gcode(), connected: the command goes out; the call returns the reply or
\* raises JubileeCommunicationError when the exchange fails on both paths
\* (/machine/code, then rr_gcode).  The log has one entry per gcode() call,
\* whichever path carried the command.
GcodeConnected(m, c) ==
    LET k == m.n + 1
        fails == (m.fail.k <= k /\ k <= m.fail.to)
        m1 == [m EXCEPT !.n = k]
    IN IF fails /\ m.fail.kind = "lost"
       THEN Raise([m1 EXCEPT !.log = Append(@, Sent(c, "lost", <<>>))],
                  "JubileeCommunicationError", "gcode")
       ELSE IF fails /\ m.fail.kind = "noreply"
       THEN Raise([BoardExec(m1, c) EXCEPT !.log = Append(@, Sent(c, "noreply", <<>>))],
                  "JubileeCommunicationError", "gcode")
       ELSE IF fails
       THEN [BoardExec(m1, c) EXCEPT
                !.log = Append(@, Sent(c, m.fail.kind, <<>>)), !.ret = <<>>]
       ELSE [BoardExec(m1, c) EXCEPT
                !.log = Append(@, Sent(c, "ok", BoardReply(m1, c))),
                !.ret = BoardReply(m1, c)]

\* A gcode() without the simulated branch.
gcode_unguarded(m, c) ==
    IF Raised(m) THEN m
    ELSE IF m.session = "None"
    THEN Raise(m, "JubileeCommunicationError", "not connected")
    ELSE GcodeConnected(m, c)

gcode(m, c) ==
    IF Raised(m) THEN m
    ELSE IF m.simulated THEN GcodeSimulated(m, c)
    ELSE IF m.session = "None"
    THEN Raise(m, "JubileeCommunicationError", "not connected")
    ELSE GcodeConnected(m, c)

\* _set_absolute_positioning / _set_relative_positioning
set_absolute_positioning(m) ==
    IF Raised(m) THEN m
    ELSE IF m.simulated THEN [m EXCEPT !.absolute_positioning = TRUE]
    ELSE Bind(gcode(m, G90), LAMBDA r :
           IF Raised(r) THEN r ELSE [r EXCEPT !.absolute_positioning = TRUE])

set_relative_positioning(m) ==
    IF Raised(m) THEN m
    ELSE IF m.simulated THEN [m EXCEPT !.absolute_positioning = FALSE]
    ELSE Bind(gcode(m, G91), LAMBDA r :
           IF Raised(r) THEN r ELSE [r EXCEPT !.absolute_positioning = FALSE])

\* all(axes_homed[:4])
Min(a, b) == IF a < b THEN a ELSE b
AllHomed4(h) == \A i \in 1..Min(4, Len(h)) : h[i]

\* Mutant of move_xyzu: "if value" in place of "if value is not None".
Truthy(o) == IF o = Some(0) THEN None ELSE o
move_xyzu_if_value(m, t, s, wait) ==
    IF Raised(m) THEN m
    ELSE IF m.simulated
    THEN Bind(gcode(m, G0(t.x, t.y, t.z, t.u, Some(s), "str")), LAMBDA r :
           IF wait THEN gcode(r, M400) ELSE r)
    ELSE Bind(gcode(m, G0(Truthy(t.x), Truthy(t.y), Truthy(t.z), Truthy(t.u),
                          Some(s), "%.2f")), LAMBDA r :
           IF wait THEN gcode(r, M400) ELSE r)

\* Mutant of move_xyzu: M400 follows the G0 whatever wait says.
move_xyzu_always_waits(m, t, s, wait) ==
    IF Raised(m) THEN m
    ELSE IF m.simulated
    THEN Bind(gcode(m, G0(t.x, t.y, t.z, t.u, Some(s), "str")), LAMBDA r :
           gcode(r, M400))
    ELSE Bind(gcode(m, G0(t.x, t.y, t.z, t.u, Some(s), "%.2f")), LAMBDA r :
           gcode(r, M400))

\* _move_xyzu, the body under the decorator: t is [x, y, z, u], s the feed.
move_xyzu(m, t, s, wait) ==
    IF Raised(m) THEN m
    ELSE IF m.simulated
    THEN Bind(gcode(m, G0(t.x, t.y, t.z, t.u, Some(s), "str")), LAMBDA r :
           IF wait THEN gcode(r, M400) ELSE r)
    ELSE Bind(gcode(m, G0(t.x, t.y, t.z, t.u, Some(s), "%.2f")), LAMBDA r :
           IF wait THEN gcode(r, M400) ELSE r)

\* Mutant of homing_check: the gate trusts the cached axes_homed.
homing_check_cached(m, t, s, wait) ==
    IF Raised(m) THEN m
    ELSE IF m.simulated \/ AllHomed4(m.axes_homed) THEN move_xyzu(m, t, s, wait)
    ELSE Bind(gcode(m, M409Homed), LAMBDA q :
           IF Raised(q)
           THEN Raise(q, "JubileeStateError", "unable to check homing state")
           ELSE IF ~AllHomed4(q.ret)
           THEN Raise(q, "JubileeStateError", "not homed")
           ELSE move_xyzu(q, t, s, wait))

\* machine_homed: the homing gate wrapped around _move_xyzu.
homing_check(m, t, s, wait) ==
    IF Raised(m) THEN m
    ELSE IF m.simulated THEN move_xyzu(m, t, s, wait)
    ELSE Bind(gcode(m, M409Homed), LAMBDA q :
           IF Raised(q)
           THEN Raise(q, "JubileeStateError", "unable to check homing state")
           ELSE IF ~AllHomed4(q.ret)
           THEN Raise(q, "JubileeStateError", "not homed")
           ELSE move_xyzu(q, t, s, wait))

\* get_position: M114, the reply parsed to axis -> value.
get_position(m) ==
    IF Raised(m) THEN m
    ELSE IF m.simulated THEN [m EXCEPT !.ret = [a \in AxisNames |-> 0]]
    ELSE gcode(m, M114)

\* _check_axis_limits: target is <<x, y, z>>, checked in that order against
\* the first three cached limits.
LimitAxes == <<"X", "Y", "Z">>

OutOfRange(lim, v) == ~(lim[1] <= v /\ v <= lim[2])

\* Mutant of check_axis_limits: a relative move is tested on the delta alone.
check_axis_limits_delta_only(m, target, relative) ==
    IF Raised(m) THEN m
    ELSE IF m.simulated THEN m
    ELSE IF ~m.axis_limits.known
    THEN Raise(m, "TypeError", "axis limits are None")
    ELSE IF m.axis_limits.list = <<>>
    THEN Raise(m, "JubileeConfigurationError", "axis limits are not configured")
    ELSE Bind(IF relative THEN get_position(m) ELSE m, LAMBDA p :
           LET limits == m.axis_limits.list
               checked == {i \in 1..Len(LimitAxes) :
                             ~IsNone(target[i]) /\ i <= Len(limits)}
               bad == {i \in checked : OutOfRange(limits[i], Val(target[i]))}
           IN IF Raised(p) THEN p
              ELSE IF bad = {} THEN p
              ELSE Raise(p, "JubileeStateError",
                         "axis limit " \o
                         LimitAxes[CHOOSE i \in bad : \A j \in bad : i <= j]))

\* Mutant of check_axis_limits: limits[axis] is read for every target given,
\* which fails for an axis that has no entry.
check_axis_limits_every_axis(m, target, relative) ==
    IF Raised(m) THEN m
    ELSE IF m.simulated THEN m
    ELSE IF ~m.axis_limits.known
    THEN Raise(m, "TypeError", "axis limits are None")
    ELSE IF m.axis_limits.list = <<>>
    THEN Raise(m, "JubileeConfigurationError", "axis limits are not configured")
    ELSE IF \E i \in 1..Len(LimitAxes) :
               ~IsNone(target[i]) /\ i > Len(m.axis_limits.list)
    THEN Raise(m, "KeyError", "limits")
    ELSE Bind(IF relative THEN get_position(m) ELSE m, LAMBDA p :
           LET limits == m.axis_limits.list
               checked == {i \in 1..Len(LimitAxes) : ~IsNone(target[i])}
               test(i) == IF relative
                          THEN p.ret[LimitAxes[i]] + Val(target[i])
                          ELSE Val(target[i])
               bad == {i \in checked : OutOfRange(limits[i], test(i))}
           IN IF Raised(p) THEN p
              ELSE IF bad = {} THEN p
              ELSE Raise(p, "JubileeStateError",
                         "axis limit " \o
                         LimitAxes[CHOOSE i \in bad : \A j \in bad : i <= j]))

check_axis_limits(m, target, relative) ==
    IF Raised(m) THEN m
    ELSE IF m.simulated THEN m
    ELSE IF ~m.axis_limits.known
    THEN Raise(m, "TypeError", "axis limits are None")
    ELSE IF m.axis_limits.list = <<>>
    THEN Raise(m, "JubileeConfigurationError", "axis limits are not configured")
    ELSE Bind(IF relative THEN get_position(m) ELSE m, LAMBDA p :
           LET limits == m.axis_limits.list
               checked == {i \in 1..Len(LimitAxes) :
                             ~IsNone(target[i]) /\ i <= Len(limits)}
               test(i) == IF relative
                          THEN p.ret[LimitAxes[i]] + Val(target[i])
                          ELSE Val(target[i])
               bad == {i \in checked : OutOfRange(limits[i], test(i))}
           IN IF Raised(p) THEN p
              ELSE IF bad = {} THEN p
              ELSE Raise(p, "JubileeStateError",
                         "axis limit " \o
                         LimitAxes[CHOOSE i \in bad : \A j \in bad : i <= j]))

\* move_to: absolute move.  Its handlers log and re-raise.
move_to(m, t, s, wait) ==
    LET m1 == set_absolute_positioning(m)
        m2 == check_axis_limits(m1, <<t.x, t.y, t.z>>, FALSE)
    IN homing_check(m2, t, s, wait)

\* move: relative move.  Its handlers log and re-raise.
move(m, t, s, wait) ==
    LET m1 == set_relative_positioning(m)
        m2 == check_axis_limits(m1, <<t.x, t.y, t.z>>, TRUE)
    IN homing_check(m2, t, s, wait)


\* tool_lock / tool_unlock: the macro-based implementations.
tool_lock(m) ==
    IF Raised(m) \/ m.simulated THEN m ELSE gcode(m, ToolLock)

tool_unlock(m) ==
    IF Raised(m) \/ m.simulated THEN m ELSE gcode(m, ToolUnlock)

\* self.axes_homed[i] = True on a Python list (i counted from 1 here).
SetHomed(m, i) ==
    IF i <= Len(m.axes_homed)
    THEN [m EXCEPT !.axes_homed[i] = TRUE]
    ELSE Raise(m, "IndexError", "axes_homed")

\* _home_x, _home_y, _home_u, _home_z: G28 <axis>, then the cached flag; any
\* exception becomes JubileeHomingError.
home_axis(m, a) ==
    IF Raised(m) THEN m
    ELSE IF m.simulated THEN SetHomed(m, AxisIndex(a))
    ELSE Bind(gcode(m, G28(a)), LAMBDA g :
           Bind(IF Raised(g) THEN g ELSE SetHomed(g, AxisIndex(a)), LAMBDA r :
             IF Raised(r)
             THEN Raise(r, "JubileeHomingError", "failed to home " \o a)
             ELSE r))

home_x(m) == home_axis(m, "X")
home_y(m) == home_axis(m, "Y")
home_u(m) == home_axis(m, "U")
home_z(m) == home_axis(m, "Z")

AllTrue == <<TRUE, TRUE, TRUE, TRUE>>

\* The end of home_xyu: the homing re-query and the write of the cache.
requery_homed(m) ==
    IF Raised(m) THEN m
    ELSE Bind(gcode(m, M409Homed), LAMBDA q :
           IF Raised(q) THEN q
           ELSE IF Len(q.ret) < 3 THEN Raise(q, "IndexError", "homed_status")
           ELSE [q EXCEPT !.axes_homed = <<TRUE, TRUE, q.ret[3], TRUE>>])

\* Mutant of home_xyu: X is homed first.
home_xyu_x_first(m) ==
    IF Raised(m) THEN m
    ELSE IF m.simulated THEN [m EXCEPT !.axes_homed = AllTrue]
    ELSE Bind(requery_homed(set_absolute_positioning(home_u(home_y(home_x(m))))),
              LAMBDA r :
                IF Raised(r)
                THEN Raise(r, "JubileeHomingError", "failed to home XYU axes")
                ELSE r)

\* home_xyu: U, then Y, then X, G90, the re-query.
home_xyu(m) ==
    IF Raised(m) THEN m
    ELSE IF m.simulated THEN [m EXCEPT !.axes_homed = AllTrue]
    ELSE Bind(requery_homed(set_absolute_positioning(home_x(home_y(home_u(m))))),
              LAMBDA r :
                IF Raised(r)
                THEN Raise(r, "JubileeHomingError", "failed to home XYU axes")
                ELSE r)

\* Mutant of home_all_body: Z is homed before X, Y and U.
home_all_body_z_first(m) ==
    IF Raised(m) THEN m
    ELSE IF m.simulated THEN [m EXCEPT !.axes_homed = AllTrue]
    ELSE Bind(home_xyu(home_z(m)), LAMBDA z :
           IF Raised(z)
           THEN Raise(z, "JubileeHomingError", "failed to home all axes")
           ELSE [z EXCEPT !.axes_homed = AllTrue])

\* home_all under its decorator: XYU, then Z, then all four flags.
home_all_body(m) ==
    IF Raised(m) THEN m
    ELSE IF m.simulated THEN [m EXCEPT !.axes_homed = AllTrue]
    ELSE Bind(home_z(home_xyu(m)), LAMBDA z :
           IF Raised(z)
           THEN Raise(z, "JubileeHomingError", "failed to home all axes")
           ELSE [z EXCEPT !.axes_homed = AllTrue])

\* safe_homing: the three prompts before home_all.  An answer is what input()
\* returns, or "EOF" when input() raises EOFError.
Answers == {"y", "n", "EOF"}
Yes(a) == a = "y"

safe_homing(m, a1, a2, a3) ==
    LET ask3(q) ==
          IF Raised(q) THEN q
          ELSE IF a3 = "EOF" THEN Raise(q, "EOFError", "input")
          ELSE IF ~Yes(a3) THEN [q EXCEPT !.confirm = "declined"]
          ELSE home_all_body([q EXCEPT !.confirm = "accepted"])
    IN IF a1 = "EOF"
       THEN Raise(m, "JubileeHomingError", "user input not available")
       ELSE IF Yes(a1)
       THEN IF a2 = "EOF" THEN Raise(m, "EOFError", "input")
            ELSE IF ~Yes(a2) THEN [m EXCEPT !.confirm = "declined"]
            ELSE ask3(tool_unlock(m))
       ELSE ask3(m)

home_all(m, a1, a2, a3) == safe_homing(m, a1, a2, a3)


\* Mutant of exchange_steps: the coupler macro runs before the engage move.
exchange_steps_macro_early(m, index, z_park, speed, lock) ==
    LET pos == tool_parking_positions[index]
        z == IF ~IsNone(z_park) THEN z_park ELSE Some(pos.z_park)
        clear == T(Some(pos.x_park), Some(pos.y_clear), z, None)
        park == T(Some(pos.x_park), Some(pos.y_park), z, None)
        s1 == move_to(m, clear, speed, TRUE)
        s2 == IF lock THEN tool_lock(s1) ELSE tool_unlock(s1)
        s3 == move_to(s2, park, speed, TRUE)
    IN move_to(s3, clear, speed, TRUE)

\* Mutant of exchange_steps: a failed coupler macro is swallowed and the
\* retract move still runs.
exchange_steps_retract_anyway(m, index, z_park, speed, lock) ==
    LET pos == tool_parking_positions[index]
        z == IF ~IsNone(z_park) THEN z_park ELSE Some(pos.z_park)
        clear == T(Some(pos.x_park), Some(pos.y_clear), z, None)
        park == T(Some(pos.x_park), Some(pos.y_park), z, None)
        s1 == move_to(m, clear, speed, TRUE)
    IN Bind(move_to(s1, park, speed, TRUE), LAMBDA s2 :
         Bind(IF lock THEN tool_lock(s2) ELSE tool_unlock(s2), LAMBDA s3 :
           move_to(IF Raised(s3) /\ ~Raised(s2)
                   THEN [s3 EXCEPT !.err = NoErr] ELSE s3,
                   clear, speed, TRUE)))

\* The four steps shared by pickup_tool_sequence and park_tool_sequence:
\* approach, engage, the coupler macro, retract.
exchange_steps(m, index, z_park, speed, lock) ==
    LET pos == tool_parking_positions[index]
        z == IF ~IsNone(z_park) THEN z_park ELSE Some(pos.z_park)
        clear == T(Some(pos.x_park), Some(pos.y_clear), z, None)
        park == T(Some(pos.x_park), Some(pos.y_park), z, None)
        s1 == move_to(m, clear, speed, TRUE)
        s2 == move_to(s1, park, speed, TRUE)
        s3 == IF lock THEN tool_lock(s2) ELSE tool_unlock(s2)
    IN move_to(s3, clear, speed, TRUE)

\* pickup_tool_sequence
pickup_tool_sequence(m, index, z_park, speed) ==
    IF Raised(m) \/ m.simulated THEN m
    ELSE IF index \notin DOMAIN tool_parking_positions
    THEN Raise(m, "JubileeStateError", "no parking position")
    ELSE exchange_steps(m, index, z_park, speed, TRUE)

\* park_tool_sequence
park_tool_sequence(m, index, z_park, speed) ==
    IF Raised(m) \/ m.simulated THEN m
    ELSE IF index \notin DOMAIN tool_parking_positions
    THEN Raise(m, "JubileeStateError", "no parking position")
    ELSE exchange_steps(m, index, z_park, speed, FALSE)

-----------------------------------------------------------------------------
(* JubileeManager: g is [tools_list, active_tool_index, c], c the controller *)

NoTool == "none"
\* self.deck is None; index not in self.tool_offsets
NoDeck == "none"
NoOffsets == [i \in 0..(MAX_TOOLS - 1) |-> None]

RaiseM(g, cls, why) == [g EXCEPT !.c = Raise(g.c, cls, why)]
InBounds(index) == 0 <= index /\ index < MAX_TOOLS
Loaded(g) == {i \in DOMAIN g.tools_list : g.tools_list[i] # NoTool}

\* load_tool
load_tool(g, tool, index) ==
    IF ~InBounds(index)
    THEN RaiseM(g, "ToolConfigurationError", "index out of bounds")
    ELSE IF g.tools_list[index] # NoTool
    THEN RaiseM(g, "ToolStateError", "a tool is already loaded at index")
    ELSE IF \E i \in Loaded(g) : g.tools_list[i] = tool
    THEN RaiseM(g, "ToolStateError", "tool already loaded at another index")
    ELSE IF Cardinality(Loaded(g)) >= MAX_TOOLS
    THEN RaiseM(g, "ToolConfigurationError", "too many tools")
    ELSE [g EXCEPT !.tools_list[index] = tool]

\* An unload_tool that leaves active_tool_index alone.
unload_tool_keeps_active(g, index) ==
    IF ~InBounds(index)
    THEN RaiseM(g, "ToolConfigurationError", "index out of bounds")
    ELSE IF g.tools_list[index] = NoTool
    THEN RaiseM(g, "ToolStateError", "no tool loaded at index")
    ELSE [g EXCEPT !.tools_list[index] = NoTool,
                   !.tool_offsets[index] = None]

\* unload_tool
unload_tool(g, index) ==
    IF ~InBounds(index)
    THEN RaiseM(g, "ToolConfigurationError", "index out of bounds")
    ELSE IF g.tools_list[index] = NoTool
    THEN RaiseM(g, "ToolStateError", "no tool loaded at index")
    ELSE [g EXCEPT !.tools_list[index] = NoTool,
                   !.tool_offsets[index] = None,
                   !.active_tool_index =
                       IF @ = Some(index) THEN None ELSE @]

\* unload_all_tools
unload_all_tools(g) ==
    IF Loaded(g) = {}
    THEN RaiseM(g, "ToolStateError", "no tools to unload")
    ELSE [g EXCEPT !.tools_list = [i \in DOMAIN g.tools_list |-> NoTool],
                   !.tool_offsets =
                       [i \in DOMAIN @ |-> IF i \in Loaded(g) THEN None ELSE @[i]],
                   !.active_tool_index =
                       IF ~IsNone(@) /\ Val(@) \in Loaded(g) THEN None ELSE @]

\* set_active_tool
set_active_tool(g, index) ==
    IF ~InBounds(index)
    THEN RaiseM(g, "ToolConfigurationError", "index out of bounds")
    ELSE IF g.tools_list[index] = NoTool
    THEN RaiseM(g, "ToolStateError", "no tool loaded at index")
    ELSE [g EXCEPT !.active_tool_index = Some(index)]

\* z_park of pickup_tool / park_active_tool: deck offset + tool offset, both
\* 0.0 while no deck is loaded and no offset is set.
ManagerZPark == Some(0)

\* A pickup_tool that does not look at active_tool_index.
pickup_tool_any_active(g, index, speed) ==
    IF ~InBounds(index)
    THEN RaiseM(g, "ToolConfigurationError", "index out of bounds")
    ELSE IF g.tools_list[index] = NoTool
    THEN RaiseM(g, "ToolStateError", "no tool loaded at index")
    ELSE Bind(pickup_tool_sequence(g.c, index, ManagerZPark, speed), LAMBDA c :
           IF Raised(c) THEN [g EXCEPT !.c = c]
           ELSE [g EXCEPT !.c = c, !.active_tool_index = Some(index)])

\* pickup_tool
pickup_tool(g, index, speed) ==
    IF ~IsNone(g.active_tool_index)
    THEN RaiseM(g, "ToolStateError", "a tool is already loaded")
    ELSE IF ~InBounds(index)
    THEN RaiseM(g, "ToolConfigurationError", "index out of bounds")
    ELSE IF g.tools_list[index] = NoTool
    THEN RaiseM(g, "ToolStateError", "no tool loaded at index")
    ELSE Bind(pickup_tool_sequence(g.c, index, ManagerZPark, speed), LAMBDA c :
           IF Raised(c) THEN [g EXCEPT !.c = c]
           ELSE [g EXCEPT !.c = c, !.active_tool_index = Some(index)])

\* park_active_tool
park_active_tool(g, speed) ==
    IF IsNone(g.active_tool_index)
    THEN RaiseM(g, "ToolStateError", "no active tool to park")
    ELSE Bind(park_tool_sequence(g.c, Val(g.active_tool_index),
                                 ManagerZPark, speed), LAMBDA c :
           IF Raised(c) THEN [g EXCEPT !.c = c]
           ELSE [g EXCEPT !.c = c, !.active_tool_index = None])

-----------------------------------------------------------------------------
(* State at the start of a call and after it *)

\* The record threaded through one call; fail names the gcode() call of this
\* operation that fails (k = 0: none) and how.
Start(k, kind) ==
    [simulated |-> simulated, session |-> session, axes_homed |-> axes_homed,
     absolute_positioning |-> absolute_positioning, axis_limits |-> axis_limits,
     configured_axes |-> configured_axes,
     board_homed |-> board_homed, board_abs |-> board_abs,
     board_pos |-> board_pos, mounted |-> mounted,
     log |-> <<>>, err |-> NoErr, n |-> 0, ret |-> <<>>, confirm |-> "none",
     fail |-> [k |-> k, to |-> k, kind |-> kind]]

NoTarget == [x |-> None, y |-> None, z |-> None, u |-> None]

\* What is recorded of a call.
Call(op, t, wait, index, r) ==
    [op |-> op, t |-> t, wait |-> wait, index |-> index, confirm |-> r.confirm,
     log |-> r.log, err |-> r.err]

Commit(r) ==
    /\ simulated' = r.simulated
    /\ session' = r.session
    /\ axes_homed' = r.axes_homed
    /\ absolute_positioning' = r.absolute_positioning
    /\ axis_limits' = r.axis_limits
    /\ configured_axes' = r.configured_axes
    /\ board_homed' = r.board_homed
    /\ board_abs' = r.board_abs
    /\ board_pos' = r.board_pos
    /\ mounted' = r.mounted
    /\ UNCHANGED gcodevars

\* The failing call is one of the calls the operation makes without failure.
Failures(calls) ==
    {[k |-> 0, kind |-> "lost"]} \cup
    {[k |-> k, kind |-> kind] : k \in 1..calls, kind \in FailKinds}

-----------------------------------------------------------------------------
(* Construction *)

DefaultSpeed == 6000

\* Axis limits reported by the board (M409 K"move.axes"), X, Y, Z, U.
LimitsSmall == <<<<0, 100>>, <<0, 100>>, <<0, 100>>, <<0, 200>>>>
LimitsLarge == <<<<0, 300>>, <<0, 350>>, <<0, 300>>, <<0, 200>>>>

StartPos == [a \in AxisNames |-> IF a = "U" THEN 0 ELSE 50]

FirstFour(h) == SubSeq(h, 1, Min(4, Len(h)))

\* No gcode() call is being followed request by request.
NoExchange == [pc |-> "none"]

\* __init__: simulated, nothing is connected and the cache holds its
\* defaults; otherwise connect() has filled the cache from the board and G90
\* was sent.
InitController(homed, limits) ==
    /\ simulated \in BOOLEAN
    /\ board_homed \in (IF simulated THEN {<<FALSE, FALSE, FALSE, FALSE>>} ELSE homed)
    /\ session = IF simulated THEN "None" ELSE "open"
    /\ axes_homed = IF simulated THEN <<FALSE, FALSE, FALSE, FALSE>>
                    ELSE FirstFour(board_homed)
    /\ absolute_positioning = TRUE
    /\ axis_limits \in (IF simulated THEN {[known |-> FALSE, list |-> <<>>]}
                        ELSE {[known |-> TRUE, list |-> l] : l \in limits})
    /\ configured_axes = IF simulated THEN None ELSE Some(Axes)
    /\ board_abs = TRUE
    /\ board_pos = StartPos
    /\ mounted = {}
    /\ crash_detection = FALSE
    /\ xchg = NoExchange

\* JubileeManager.__init__
InitManager ==
    /\ tools_list = [i \in 0..(MAX_TOOLS - 1) |-> NoTool]
    /\ active_tool_index = None
    /\ deck = NoDeck
    /\ tool_offsets = NoOffsets

\* No call is in progress: the caller has taken the result of the last one.
Idle == [op |-> "idle", t |-> NoTarget, wait |-> FALSE, index |-> None,
         confirm |-> "none", log |-> <<>>, err |-> NoErr]

InitLast == last = Idle

\* The board loses its homing (power cycle, emergency stop, motors off)
\* between two calls; the cache of the controller is not told.
BoardLosesHoming ==
    /\ last = Idle
    /\ \E i \in 1..Len(board_homed) : board_homed[i]
    /\ board_homed' = [i \in 1..Len(board_homed) |-> FALSE]
    /\ UNCHANGED <<ctlvars, board_abs, board_pos, mounted, mgrvars, gcodevars,
                   last>>

\* The caller takes the result (return value or exception) of the call.
Return ==
    /\ last # Idle
    /\ last' = Idle
    /\ UNCHANGED <<ctlvars, boardvars, mgrvars, gcodevars>>

-----------------------------------------------------------------------------
(* Moves *)

\* Targets of move_to: inside, on and outside the limits of LimitsSmall.
AbsTargets ==
    { T(Some(50), None, None, None), T(Some(0), None, None, None),
      T(Some(100), None, None, None), T(Some(101), None, None, None),
      T(Some(-1), None, None, None),
      T(None, Some(0), None, None), T(None, Some(-1), None, None),
      T(None, None, Some(100), None), T(None, None, Some(101), None),
      T(None, None, None, Some(200)), T(None, None, None, Some(201)),
      T(Some(50), Some(101), Some(50), None), NoTarget }

\* Deltas of move.
RelDeltas ==
    { T(Some(40), None, None, None), T(Some(60), None, None, None),
      T(Some(-50), None, None, None), T(None, Some(-50), None, None),
      T(None, None, Some(50), None), T(Some(40), None, Some(60), None) }

MoveTo(t, wait) ==
    /\ last = Idle
    /\ \E f \in Failures(move_to(Start(0, "lost"), t, DefaultSpeed, wait).n) :
      \E r \in {move_to(Start(f.k, f.kind), t, DefaultSpeed, wait)} :
         /\ Commit(r)
         /\ last' = Call("move_to", t, wait, None, r)
         /\ UNCHANGED mgrvars

Move(t, wait) ==
    /\ last = Idle
    /\ \E f \in Failures(move(Start(0, "lost"), t, DefaultSpeed, wait).n) :
      \E r \in {move(Start(f.k, f.kind), t, DefaultSpeed, wait)} :
         /\ Commit(r)
         /\ last' = Call("move", t, wait, None, r)
         /\ UNCHANGED mgrvars

HomedChoices ==
    { <<TRUE, TRUE, TRUE, TRUE>>, <<FALSE, TRUE, TRUE, TRUE>>,
      <<TRUE, FALSE, TRUE, TRUE>>, <<TRUE, TRUE, FALSE, TRUE>>,
      <<TRUE, TRUE, TRUE, FALSE>>, <<FALSE, FALSE, FALSE, FALSE>> }

InitMotion ==
    /\ InitController(HomedChoices, {LimitsSmall})
    /\ InitManager
    /\ InitLast

NextMotion ==
    \/ Return
    \/ BoardLosesHoming
    \/ \E t \in AbsTargets, wait \in BOOLEAN : MoveTo(t, wait)
    \/ \E t \in RelDeltas, wait \in BOOLEAN : Move(t, wait)

SpecMotion == InitMotion /\ [][NextMotion]_vars

-----------------------------------------------------------------------------
(* Homing *)

HomeXYU ==
    /\ last = Idle
    /\ \E f \in Failures(home_xyu(Start(0, "lost")).n) :
         \E r \in {home_xyu(Start(f.k, f.kind))} :
            /\ Commit(r)
            /\ last' = Call("home_xyu", NoTarget, FALSE, None, r)
            /\ UNCHANGED mgrvars

HomeAll(a1, a2, a3) ==
    /\ last = Idle
    /\ \E f \in Failures(home_all(Start(0, "lost"), a1, a2, a3).n) :
         \E r \in {home_all(Start(f.k, f.kind), a1, a2, a3)} :
            /\ Commit(r)
            /\ last' = Call("home_all", NoTarget, FALSE, None, r)
            /\ UNCHANGED mgrvars

InitHoming ==
    /\ InitController(HomedChoices, {LimitsSmall})
    /\ InitManager
    /\ InitLast

NextHoming ==
    \/ Return
    \/ BoardLosesHoming
    \/ HomeXYU
    \/ \E a1 \in Answers, a2 \in Answers, a3 \in Answers : HomeAll(a1, a2, a3)

SpecHoming == InitHoming /\ [][NextHoming]_vars

-----------------------------------------------------------------------------
(* Tool-exchange sequences called on the controller *)

\* Tool indexes given to the sequences; the last has no parking position.
SeqIndexes == {0, 1, 4}
SeqZParks == {None, Some(0)}

PickupToolSequence(index, z_park) ==
    /\ last = Idle
    /\ \E f \in Failures(pickup_tool_sequence(Start(0, "lost"), index, z_park,
                                              DefaultSpeed).n) :
         \E r \in {pickup_tool_sequence(Start(f.k, f.kind), index, z_park,
                                       DefaultSpeed)} :
            /\ Commit(r)
            /\ last' = Call("pickup_tool_sequence", T(None, None, z_park, None),
                            FALSE, Some(index), r)
            /\ UNCHANGED mgrvars

ParkToolSequence(index, z_park) ==
    /\ last = Idle
    /\ \E f \in Failures(park_tool_sequence(Start(0, "lost"), index, z_park,
                                            DefaultSpeed).n) :
         \E r \in {park_tool_sequence(Start(f.k, f.kind), index, z_park,
                                     DefaultSpeed)} :
            /\ Commit(r)
            /\ last' = Call("park_tool_sequence", T(None, None, z_park, None),
                            FALSE, Some(index), r)
            /\ UNCHANGED mgrvars

InitSeq ==
    /\ InitController({AllTrue, <<TRUE, TRUE, FALSE, TRUE>>},
                      {LimitsLarge, LimitsSmall})
    /\ InitManager
    /\ InitLast

NextSeq ==
    \/ Return
    \/ \E i \in SeqIndexes, z \in SeqZParks : PickupToolSequence(i, z)
    \/ \E i \in SeqIndexes, z \in SeqZParks : ParkToolSequence(i, z)

SpecSeq == InitSeq /\ [][NextSeq]_vars

-----------------------------------------------------------------------------
(* Manager operations *)

ToolObjects == {"A", "B"}

StartM(k, kind) ==
    [tools_list |-> tools_list, active_tool_index |-> active_tool_index,
     deck |-> deck, tool_offsets |-> tool_offsets,
     c |-> Start(k, kind)]

CommitM(g) ==
    /\ Commit(g.c)
    /\ tools_list' = g.tools_list
    /\ active_tool_index' = g.active_tool_index
    /\ deck' = g.deck
    /\ tool_offsets' = g.tool_offsets

LoadTool(tool, index) ==
    /\ last = Idle
    /\ \E g \in {load_tool(StartM(0, "lost"), tool, index)} :
          /\ CommitM(g)
          /\ last' = Call("load_tool", NoTarget, FALSE, Some(index), g.c)

UnloadTool(index) ==
    /\ last = Idle
    /\ \E g \in {unload_tool(StartM(0, "lost"), index)} :
          /\ CommitM(g)
          /\ last' = Call("unload_tool", NoTarget, FALSE, Some(index), g.c)

UnloadAllTools ==
    /\ last = Idle
    /\ \E g \in {unload_all_tools(StartM(0, "lost"))} :
          /\ CommitM(g)
          /\ last' = Call("unload_all_tools", NoTarget, FALSE, None, g.c)

SetActiveTool(index) ==
    /\ last = Idle
    /\ \E g \in {set_active_tool(StartM(0, "lost"), index)} :
          /\ CommitM(g)
          /\ last' = Call("set_active_tool", NoTarget, FALSE, Some(index), g.c)

PickupTool(index) ==
    /\ last = Idle
    /\ \E f \in Failures(pickup_tool(StartM(0, "lost"), index, DefaultSpeed).c.n) :
         \E g \in {pickup_tool(StartM(f.k, f.kind), index, DefaultSpeed)} :
            /\ CommitM(g)
            /\ last' = Call("pickup_tool", NoTarget, FALSE, Some(index), g.c)

ParkActiveTool ==
    /\ last = Idle
    /\ \E f \in Failures(park_active_tool(StartM(0, "lost"), DefaultSpeed).c.n) :
         \E g \in {park_active_tool(StartM(f.k, f.kind), DefaultSpeed)} :
            /\ CommitM(g)
            /\ last' = Call("park_active_tool", NoTarget, FALSE, None, g.c)

InitManagerSpec ==
    /\ InitController({AllTrue}, {LimitsLarge})
    /\ InitManager
    /\ InitLast

NextManager ==
    \/ Return
    \/ \E tool \in ToolObjects, i \in 0..MAX_TOOLS : LoadTool(tool, i)
    \/ \E i \in 0..MAX_TOOLS : UnloadTool(i)
    \/ UnloadAllTools
    \/ \E i \in 0..MAX_TOOLS : SetActiveTool(i)
    \/ \E i \in 0..MAX_TOOLS : PickupTool(i)
    \/ ParkActiveTool

SpecManager == InitManagerSpec /\ [][NextManager]_vars

-----------------------------------------------------------------------------
(* Reading the record of a call *)

\* The positions in the log of the commands that went out on the wire.
Wire(log) == {i \in 1..Len(log) : log[i].st # "sim"}
IsG0(e) == e.c.cmd = "G0"
IsMove(op) == op \in {"move_to", "move"}
G0Sent(log) == {i \in Wire(log) : IsG0(log[i])}

\* The homing queries of the call that the board answered.
HomedReplies(log) == {i \in Wire(log) : log[i].c = M409Homed /\ log[i].st = "ok"}

NotHomedError == Err("JubileeStateError", "not homed")

-----------------------------------------------------------------------------
(* C1 *)

\* C1: a move_to or move sends a G0 only after the board's homing query of
\* that call reported the first four axes homed; when the query reports one
\* of them unhomed the call fails with the not-homed state error and no G0;
\* when it reports all four homed the G0 is the next command sent, and the
\* call succeeds when that G0 (and its M400) are answered.
C1_HomingGate ==
    (~simulated /\ IsMove(last.op)) =>
      /\ \A i \in G0Sent(last.log) :
           /\ i > 1
           /\ (i - 1) \in HomedReplies(last.log)
           /\ AllHomed4(last.log[i - 1].reply)
      /\ \A j \in HomedReplies(last.log) :
           IF AllHomed4(last.log[j].reply)
           THEN /\ (j + 1) \in G0Sent(last.log)
                /\ (\A i \in (j + 1)..Len(last.log) : last.log[i].st = "ok")
                     => last.err = NoErr
           ELSE /\ last.err = NotHomedError
                /\ G0Sent(last.log) = {}

\* C1 witness: the cache says homed, the board does not, the move is refused.
C1_Witness ==
    /\ ~simulated /\ IsMove(last.op)
    /\ AllHomed4(axes_homed) /\ ~AllHomed4(board_homed)
    /\ last.err = NotHomedError

-----------------------------------------------------------------------------
(* C2 *)

TargetOf(t, a) ==
    CASE a = "X" -> t.x [] a = "Y" -> t.y [] a = "Z" -> t.z [] OTHER -> t.u

IsLimitError(e) ==
    e.cls = "JubileeStateError" /\
    e.why \in {"axis limit X", "axis limit Y", "axis limit Z", "axis limit U"}

\* The axes of target t that lie outside their cached (min, max).
OutsideLimits(t, axes) ==
    {a \in axes :
       /\ AxisIndex(a) <= Len(axis_limits.list)
       /\ ~IsNone(TargetOf(t, a))
       /\ OutOfRange(axis_limits.list[AxisIndex(a)], Val(TargetOf(t, a)))}

\* The mode command of the call was answered, so the call reached its checks.
ModeSet(l) == Len(l.log) >= 1 /\ l.log[1].st = "ok"

\* C2 (as claimed): for X, Y, Z and U, a move_to whose target on a limited
\* axis is outside [min, max] fails with the axis-limit error and sends no
\* G0; with every target inside or on its limits the check passes.
C2_LimitsAllAxes ==
    (~simulated /\ last.op = "move_to" /\ ModeSet(last) /\ axis_limits.known) =>
      IF OutsideLimits(last.t, AxisNames) # {}
      THEN IsLimitError(last.err) /\ G0Sent(last.log) = {}
      ELSE ~IsLimitError(last.err)

\* What the code enforces: the same for X, Y and Z only, the bounds included.
C2_LimitsXYZ ==
    (~simulated /\ last.op = "move_to" /\ ModeSet(last) /\ axis_limits.known) =>
      IF OutsideLimits(last.t, {"X", "Y", "Z"}) # {}
      THEN IsLimitError(last.err) /\ G0Sent(last.log) = {}
      ELSE /\ ~IsLimitError(last.err)
           /\ (Len(last.log) >= 2 /\ last.log[2].st = "ok"
               /\ AllHomed4(last.log[2].reply)) => G0Sent(last.log) = {3}

-----------------------------------------------------------------------------
(* C3 *)

Rejected(l) == IsLimitError(l.err) \/ l.err = NotHomedError

ModeOrMotion(e) == e.c \in {G90, G91, M400} \/ IsG0(e)

\* C3 (as claimed): a move_to or move rejected by the limit check or the
\* homing gate has sent no G90/G91, G0 or M400, and leaves the board's mode
\* and position and the cached mode as they were.
C3_NoWireCommand ==
    [][(~simulated /\ IsMove(last'.op) /\ Rejected(last')) =>
         /\ \A i \in Wire(last'.log) : ~ModeOrMotion(last'.log[i])
         /\ board_abs' = board_abs
         /\ board_pos' = board_pos
         /\ absolute_positioning' = absolute_positioning]_vars

\* What a rejected move_to or move does do: it has sent no G0 and no M400, so
\* the board position is unchanged; its mode command (G90 for move_to, G91
\* for move) was sent first and answered, so the board and the cache are
\* both in the mode of the call afterwards.
C3_NoMotionCommand ==
    [][(~simulated /\ IsMove(last'.op) /\ Rejected(last')) =>
         /\ \A i \in Wire(last'.log) : ~(IsG0(last'.log[i]) \/ last'.log[i].c = M400)
         /\ board_pos' = board_pos
         /\ last'.log[1] = Sent(IF last'.op = "move_to" THEN G90 ELSE G91, "ok", <<>>)
         /\ \A i \in 2..Len(last'.log) : last'.log[i].c \notin {G90, G91}
         /\ board_abs' = (last'.op = "move_to")
         /\ absolute_positioning' = board_abs']_vars

\* A rejected relative move that left board and cache relative.
RejectedMoveLeftRelative ==
    /\ ~simulated /\ last.op = "move" /\ IsLimitError(last.err)
    /\ ~board_abs /\ ~absolute_positioning

-----------------------------------------------------------------------------
(* C4 *)

\* The position move read with M114, when the board answered.
PositionRead(l) == Len(l.log) >= 2 /\ l.log[2].c = M114 /\ l.log[2].st = "ok"

\* The axes among X, Y, Z where position + delta leaves the cached limits.
SumOutside(pos, t) ==
    {a \in {"X", "Y", "Z"} :
       /\ AxisIndex(a) <= Len(axis_limits.list)
       /\ ~IsNone(TargetOf(t, a))
       /\ OutOfRange(axis_limits.list[AxisIndex(a)], pos[a] + Val(TargetOf(t, a)))}

\* C4: a relative move is limit-checked on current position + delta, per
\* non-null axis: it is rejected with the limit error, before any G0, exactly
\* when one of the sums leaves its range.
C4_RelativeLimit ==
    (~simulated /\ last.op = "move" /\ PositionRead(last)) =>
      LET pos == last.log[2].reply
      IN IF SumOutside(pos, last.t) # {}
         THEN IsLimitError(last.err) /\ G0Sent(last.log) = {}
         ELSE ~IsLimitError(last.err)

\* C4 witness: X = 50, limit [0, 100], move(dx=60) rejected.
C4_Witness ==
    /\ ~simulated /\ last.op = "move" /\ PositionRead(last)
    /\ axis_limits.list[1] = <<0, 100>>
    /\ last.log[2].reply["X"] = 50 /\ last.t.x = Some(60)
    /\ last.err = Err("JubileeStateError", "axis limit X")

-----------------------------------------------------------------------------
(* C6 *)

Cmds(log) == [i \in 1..Len(log) |-> log[i].c]
IsPrefix(a, b) == Len(a) <= Len(b) /\ SubSeq(b, 1, Len(a)) = a

\* Every command of the log but the last was answered.
AnsweredBeforeNext(log) == \A i \in 1..(Len(log) - 1) : log[i].st = "ok"
AllAnswered(log) == \A i \in 1..Len(log) : log[i].st = "ok"

XYUCommands == <<G28("U"), G28("Y"), G28("X"), G90, M409Homed>>

\* C6: home_xyu sends G28 U, G28 Y, G28 X, G90 and one homing query, in that
\* order, each after the previous one was answered; when it returns normally
\* all five were answered and the cache is [TRUE, TRUE, <Z of the reply>, TRUE].
C6_HomeXYUOrder ==
    (~simulated /\ last.op = "home_xyu") =>
      /\ IsPrefix(Cmds(last.log), XYUCommands)
      /\ AnsweredBeforeNext(last.log)
      /\ last.err = NoErr =>
           /\ Cmds(last.log) = XYUCommands
           /\ AllAnswered(last.log)
           /\ axes_homed = <<TRUE, TRUE, last.log[5].reply[3], TRUE>>

\* C6 witness: home_xyu returned and the board reported Z unhomed.
C6_Witness ==
    /\ ~simulated /\ last.op = "home_xyu" /\ last.err = NoErr
    /\ axes_homed = <<TRUE, TRUE, FALSE, TRUE>>

-----------------------------------------------------------------------------
(* C7 *)

Answered(log, c) == \E i \in 1..Len(log) : log[i].c = c /\ log[i].st = "ok"
Position(log, c) == CHOOSE i \in 1..Len(log) : log[i].c = c

\* G28 Z is the last command, after G28 U, G28 Y, G28 X answered in that order.
ZLastAfterXYU(log) ==
    \A i \in 1..Len(log) :
      log[i].c = G28("Z") =>
        /\ i = Len(log)
        /\ Answered(log, G28("U")) /\ Answered(log, G28("Y"))
        /\ Answered(log, G28("X"))
        /\ Position(log, G28("U")) < Position(log, G28("Y"))
        /\ Position(log, G28("Y")) < Position(log, G28("X"))
        /\ Position(log, G28("X")) < i

\* The homing re-query of the call reported Z homed.
ZReported(log) ==
    \E i \in HomedReplies(log) : Len(log[i].reply) >= 3 /\ log[i].reply[3]

-----------------------------------------------------------------------------
(* C8 *)

IsG28(e) == \E a \in AxisNames : e.c = G28(a)
CausesMotion(e) == IsG28(e) \/ IsG0(e) \/ e.c \in {ToolLock, ToolUnlock}

\* C8 (as claimed): home_all and home_xyu send G28 only after the
\* confirmation accepted; when it declined, nothing that causes motion was
\* sent and the cached homing flags and mode are unchanged.
C8_ConfirmedBeforeHoming ==
    [][(~simulated /\ last'.op \in {"home_all", "home_xyu"}) =>
         /\ (\E i \in Wire(last'.log) : IsG28(last'.log[i]))
              => last'.confirm = "accepted"
         /\ last'.confirm = "declined" =>
              /\ \A i \in Wire(last'.log) : ~CausesMotion(last'.log[i])
              /\ axes_homed' = axes_homed
              /\ absolute_positioning' = absolute_positioning]_vars

-----------------------------------------------------------------------------
(* C9 *)

IsExchange(op) == op \in {"pickup_tool_sequence", "park_tool_sequence"}

\* The call ran the choreography: real hardware, a tool with a parking post.
RanExchange(l) ==
    ~simulated /\ IsExchange(l.op) /\ Val(l.index) \in DOMAIN tool_parking_positions

\* The commands of the log that act on the machine: G0, M400, coupler macros.
IsAction(e) == IsG0(e) \/ e.c \in {M400, ToolLock, ToolUnlock}
Actions(log) == SelectSeq(log, IsAction)

\* The seven commands of the four steps for the call l.
Choreography(l) ==
    LET pos == tool_parking_positions[Val(l.index)]
        z == IF ~IsNone(l.t.z) THEN l.t.z ELSE Some(pos.z_park)
        clear == G0(Some(pos.x_park), Some(pos.y_clear), z, None,
                    Some(DefaultSpeed), "%.2f")
        park == G0(Some(pos.x_park), Some(pos.y_park), z, None,
                   Some(DefaultSpeed), "%.2f")
        macro == IF l.op = "pickup_tool_sequence" THEN ToolLock ELSE ToolUnlock
    IN <<clear, M400, park, M400, macro, clear, M400>>

\* C9: a tool-exchange sequence acts on the machine by approach (G0 then
\* M400), engage (G0 then M400), the lock macro (pickup) or unlock macro
\* (park), retract (G0 then M400), in that order and nothing else, each
\* command after the previous one was answered; a normal return means all
\* seven were sent and answered.
C9_FourSteps ==
    RanExchange(last) =>
      /\ IsPrefix(Cmds(Actions(last.log)), Choreography(last))
      /\ AnsweredBeforeNext(last.log)
      /\ last.err = NoErr =>
           /\ Cmds(Actions(last.log)) = Choreography(last)
           /\ AllAnswered(last.log)

\* C9 witness: a pickup ran its four steps and the tool is on the head.
C9_Witness ==
    /\ RanExchange(last) /\ last.op = "pickup_tool_sequence"
    /\ last.err = NoErr /\ mounted = {Val(last.index)}

-----------------------------------------------------------------------------
(* C10 *)

CommError == Err("JubileeCommunicationError", "gcode")
HomingQueryError == Err("JubileeStateError", "unable to check homing state")

\* The error of the step at which the log stops.
StepError(log) ==
    LET e == log[Len(log)]
    IN IF e.st # "ok"
       THEN {IF e.c = M409Homed THEN HomingQueryError ELSE CommError}
       ELSE IF e.c = M409Homed THEN {NotHomedError}
       ELSE {Err("JubileeStateError", "axis limit " \o a) : a \in {"X", "Y", "Z"}}

\* A step of the call failed: an error came out of it, or one of its commands
\* was not answered.
StepFailed(l) ==
    l.err # NoErr \/ \E i \in 1..Len(l.log) : l.log[i].st # "ok"

\* C10: when a step of a tool-exchange sequence fails nothing is sent after
\* it (no macro after a failed approach or engage, no retract after a failed
\* macro), and the caller gets the error of that step as it was raised.
C10_AbortOnFailure ==
    (RanExchange(last) /\ StepFailed(last)) =>
      /\ last.log # <<>>
      /\ AnsweredBeforeNext(last.log)
      /\ Len(Actions(last.log)) < Len(Choreography(last))
         \/ last.log[Len(last.log)].st # "ok"
      /\ last.err \in StepError(last.log)

\* C10 witness: the lock macro failed and no retract followed.
C10_Witness ==
    /\ RanExchange(last) /\ last.err = CommError
    /\ last.log[Len(last.log)].c = ToolLock

-----------------------------------------------------------------------------
(* C5 *)

\* C5 (as claimed): at most one tool is on the head.
C5_AtMostOneMounted == Cardinality(mounted) <= 1

-----------------------------------------------------------------------------
(* gcode(), request by request *)

\* The strings gcode() looks for in a reply text.
RejectionMarker == "rejected"
CrashMarker == "crash detected"
Markers == {RejectionMarker, CrashMarker}

\* A reply text: what it says and which of the marker strings occur in it.
Text(body, marks) == [body |-> body, marks |-> marks]
\* marker in text
Contains(text, marker) == marker \in text.marks

\* The four HTTP requests of gcode().
MachineCode == "POST /machine/code"
RrModelSeqs == "GET /rr_model?key=seqs"
RrGcode == "GET /rr_gcode"
RrReply == "GET /rr_reply"
\* A request that was made: "ok" with the value it returned, or "exc" when
\* it raised requests.RequestException.
Request(req, out, val) == [req |-> req, out |-> out, val |-> val]

\* No gcode() call is running.  elapsed is time.time() - tic in tenths of a
\* second, polls the turns of the while loop so far and sleeps its last two
\* time.sleep() calls.  seqs, reply and pending are the board's:
\* its reply counter, its latest reply text, and whether a command submitted
\* through rr_gcode is still to be answered.  taken counts how many times
\* the board took the command of this call.
IdleExchange(seqs, reply, pending) ==
    [pc |-> "idle", cmd |-> Cmd(""), wait |-> 0, trace |-> <<>>, count0 |-> 0,
     elapsed |-> 0, spins |-> 0, polls |-> 0, sleeps |-> <<>>, ret |-> None, err |-> NoErr,
     taken |-> 0,
     seqs |-> seqs, reply |-> reply, pending |-> pending]

\* return response / raise
Returns(x, text) == [x EXCEPT !.pc = "done", !.ret = Some(text)]
Raises(x, e) == [x EXCEPT !.pc = "done", !.err = e]
Requested(x, r) == [x EXCEPT !.trace = Append(@, r)]

\* _delay_time, in tenths of a second: n is int(elapsed * 10).
delay_time(n) ==
    IF n = 0 THEN 0
    ELSE IF n < 10 THEN 1
    ELSE IF n < 20 THEN 2
    ELSE IF n < 30 THEN 3
    ELSE 10

\* The canned replies of simulated mode.
SimulatedReply(c) ==
    CASE c = M409Homed -> Text(<<TRUE, TRUE, TRUE, TRUE>>, {})
      [] c = M114 -> Text([a \in AxisNames |-> 0], {})
      [] OTHER -> Text(<<>>, {})

\* gcode() up to its first request.
gcode_entry(x) ==
    IF simulated THEN Returns(x, SimulatedReply(x.cmd))
    ELSE IF session = "None"
    THEN Raises(x, Err("JubileeCommunicationError", "not connected"))
    ELSE [x EXCEPT !.pc = "post"]

\* A primary path that takes every reply for the answer.
primary_accepts_anything(text) == TRUE

\* "rejected" not in response
primary_accepts(text) == ~Contains(text, RejectionMarker)

\* The primary path after its POST r: return the reply, or go on to the
\* fallback when the reply is a rejection or the request raised.
after_post(x, r) ==
    IF r.out = "ok" /\ primary_accepts(r.val)
    THEN Returns(Requested(x, r), r.val)
    ELSE [Requested(x, r) EXCEPT !.pc = "seqs0"]

\* A fallback whose exceptions reach the caller as they are.
fallback_except_reraise(e) == e

\* except Exception as e: raise JubileeCommunicationError(...) from e
fallback_except(e) == Err("JubileeCommunicationError", e.why)

TransportError == Err("RequestException", "transport")

\* reply_count = ...["result"]["reply"]
after_read_counter(x, r) ==
    IF r.out = "ok"
    THEN [Requested(x, r) EXCEPT !.count0 = r.val, !.pc = "submit"]
    ELSE Raises(Requested(x, r), fallback_except(TransportError))

\* A submission that returns to the caller at once, without the polling
\* loop.
after_submit_and_return(x, r) ==
    IF r.out = "ok"
    THEN Returns(Requested(x, r), Text(<<>>, {}))
    ELSE Raises(Requested(x, r), fallback_except(TransportError))

\* session.get(rr_gcode); tic = time.time()
after_submit(x, r) ==
    IF r.out = "ok"
    THEN [Requested(x, r) EXCEPT !.elapsed = 0, !.spins = 0, !.polls = 0,
                                 !.sleeps = <<>>, !.pc = "poll"]
    ELSE Raises(Requested(x, r), fallback_except(TransportError))

\* time.sleep(self._delay_time(int((time.time() - tic) * 10))) at the end of
\* turn n of the while loop, at tenths of a second after tic.
Slept(n, at) == [n |-> n, at |-> at, secs |-> delay_time(at)]
LastTwo(s) == IF Len(s) > 2 THEN Tail(s) ELSE s

\* time.time() - tic > response_wait
deadline_passed(elapsed, wait) == elapsed > wait

\* A polling loop without the deadline test.
after_poll_no_deadline(x, r, d) ==
    IF r.out # "ok"
    THEN Raises(Requested(x, r), fallback_except(TransportError))
    ELSE IF r.val # x.count0
    THEN [Requested(x, r) EXCEPT !.pc = "fetch"]
    ELSE [x EXCEPT !.spins = IF @ = 0 THEN 1 ELSE 0]

\* One turn of the polling loop; the request took d tenths of a second.
after_poll(x, r, d) ==
    IF r.out # "ok"
    THEN Raises(Requested(x, r), fallback_except(TransportError))
    ELSE IF r.val # x.count0
    THEN [Requested(x, r) EXCEPT !.elapsed = @ + d, !.pc = "fetch"]
    ELSE IF deadline_passed(x.elapsed + d, x.wait)
    THEN Raises([Requested(x, r) EXCEPT !.elapsed = @ + d],
                fallback_except(Err("JubileeCommunicationError", "timeout")))
    ELSE [Requested(x, r) EXCEPT
            !.elapsed = @ + d + delay_time(@ + d),
            !.spins = IF d + delay_time(x.elapsed + d) = 0 THEN @ + 1 ELSE 0,
            !.polls = @ + 1,
            !.sleeps = LastTwo(Append(@, Slept(x.polls, x.elapsed + d)))]

\* response = session.get(rr_reply).text and the crash test.
after_fetch(x, r) ==
    IF r.out # "ok"
    THEN Raises(Requested(x, r), fallback_except(TransportError))
    ELSE IF crash_detection /\ Contains(r.val, CrashMarker)
    THEN Raises(Requested(x, r),
                fallback_except(Err("JubileeStateError", "crash detected")))
    ELSE Returns(Requested(x, r), r.val)

\* Bounds of the exchange: the response_wait values (tenths of a second),
\* the requests that can complete within one tenth, the board's counter.
MaxWait == 32
MaxSpins == 2
MaxSeqs == 1
Waits == {0, 15, MaxWait}
GcodeCmds == {M400, M409Homed}
Outcomes == {"ok", "exc"}

\* How long a poll request takes: less than a tenth of a second, or one.
PollTicks(x) == IF x.spins < MaxSpins THEN {0, 1} ELSE {1}

xframe == <<ctlvars, boardvars, mgrvars, crash_detection, last>>

\* gcode(cmd, response_wait=wait) is called.
GcodeBegin ==
    /\ xchg.pc = "idle"
    /\ xchg.seqs < MaxSeqs
    /\ \E c \in GcodeCmds, w \in Waits :
          xchg' = gcode_entry([xchg EXCEPT !.cmd = c, !.wait = w])
    /\ UNCHANGED xframe

\* session.post(/machine/code): the board answers (with any text), or the
\* request raises.  The board took the command when it answers without
\* rejecting it; a request that raises (a timeout, a lost reply) may have
\* reached the board or not.
Post ==
    /\ xchg.pc = "post"
    /\ \E out \in Outcomes, marks \in SUBSET Markers, got \in BOOLEAN :
          /\ out = "exc" => marks = {}
          /\ out = "ok" => (got <=> RejectionMarker \notin marks)
          /\ xchg' = [after_post(xchg,
                         Request(MachineCode, out, Text("primary", marks)))
                        EXCEPT !.taken = IF got THEN @ + 1 ELSE @]
    /\ UNCHANGED xframe

\* The first session.get(rr_model?key=seqs).
ReadCounter ==
    /\ xchg.pc = "seqs0"
    /\ \E out \in Outcomes :
          xchg' = after_read_counter(xchg, Request(RrModelSeqs, out, xchg.seqs))
    /\ UNCHANGED xframe

\* session.get(rr_gcode): the board takes the command (the request may
\* still raise afterwards) or never gets it.
Submit ==
    /\ xchg.pc = "submit"
    /\ \E out \in Outcomes, got \in BOOLEAN :
          /\ out = "ok" => got
          /\ xchg' = [after_submit(xchg, Request(RrGcode, out, <<>>))
                        EXCEPT !.pending = @ \/ got,
                               !.taken = IF got THEN @ + 1 ELSE @]
    /\ UNCHANGED xframe

\* The board finishes a submitted command: new reply text, counter + 1.
BoardAnswers ==
    /\ xchg.pc # "none"
    /\ xchg.pending
    /\ \E marks \in SUBSET {CrashMarker} :
          xchg' = [xchg EXCEPT !.pending = FALSE, !.seqs = @ + 1,
                               !.reply = Text("fallback", marks)]
    /\ UNCHANGED xframe

\* One session.get(rr_model?key=seqs) of the while loop and what follows it
\* up to the next request.
Poll ==
    /\ xchg.pc = "poll"
    /\ \E out \in Outcomes, d \in PollTicks(xchg) :
          xchg' = after_poll(xchg, Request(RrModelSeqs, out, xchg.seqs), d)
    /\ UNCHANGED xframe

\* session.get(rr_reply)
Fetch ==
    /\ xchg.pc = "fetch"
    /\ \E out \in Outcomes :
          xchg' = after_fetch(xchg, Request(RrReply, out, xchg.reply))
    /\ UNCHANGED xframe

\* The caller takes the reply or the exception.
GcodeReturn ==
    /\ xchg.pc = "done"
    /\ xchg' = IdleExchange(xchg.seqs, xchg.reply, xchg.pending)
    /\ UNCHANGED xframe

InitGcode ==
    /\ simulated \in BOOLEAN
    /\ session \in (IF simulated THEN {"None"} ELSE {"None", "open"})
    /\ board_homed = <<TRUE, TRUE, TRUE, TRUE>>
    /\ axes_homed = <<TRUE, TRUE, TRUE, TRUE>>
    /\ absolute_positioning = TRUE
    /\ axis_limits = [known |-> TRUE, list |-> LimitsSmall]
    /\ configured_axes = Some(Axes)
    /\ board_abs = TRUE
    /\ board_pos = StartPos
    /\ mounted = {}
    /\ crash_detection \in BOOLEAN
    /\ xchg = IdleExchange(0, Text("stale", {}), FALSE)
    /\ InitManager
    /\ InitLast

NextGcode ==
    \/ GcodeBegin
    \/ Post
    \/ ReadCounter
    \/ Submit
    \/ BoardAnswers
    \/ Poll
    \/ Fetch
    \/ GcodeReturn

SpecGcode == InitGcode /\ [][NextGcode]_vars

\* gcode() runs on the caller's thread and every request it makes returns
\* or raises: a request that is due is eventually made.  When the board
\* answers is not up to the program.
SpecGcodeLive ==
    /\ SpecGcode
    /\ WF_vars(Post)
    /\ WF_vars(ReadCounter)
    /\ WF_vars(Submit)
    /\ WF_vars(Poll)
    /\ WF_vars(Fetch)

-----------------------------------------------------------------------------
(* C11 *)

Exchanging == xchg.pc \notin {"none", "idle"}
PrimaryAnswered(tr) ==
    tr # <<>> /\ tr[1].out = "ok" /\ ~Contains(tr[1].val, RejectionMarker)

\* The requests of the fallback, in the order of the code: the counter, the
\* submission, polls that all read the first value, and, after a poll that
\* read another value, the fetch.  Every request before the last succeeded.
FallbackOrder(tr) ==
    \A i \in 2..Len(tr) :
       /\ i = 2 => tr[i].req = RrModelSeqs
       /\ i = 3 => tr[i].req = RrGcode
       /\ i >= 4 => tr[i].req \in {RrModelSeqs, RrReply}
       /\ i < Len(tr) =>
            /\ tr[i].out = "ok"
            /\ tr[i].req # RrReply
            /\ i >= 4 => (tr[i].val # tr[2].val <=> tr[i + 1].req = RrReply)
       /\ tr[i].req = RrReply => i >= 5

\* C11: the first request of gcode(cmd) is the POST of cmd to /machine/code;
\* an answered POST whose reply has no rejection marker ends the call with
\* that reply and without any fallback request; a POST that raised or was
\* rejected is followed by the fallback in its order (counter, rr_gcode,
\* polls until the counter differs, rr_reply), whose fetched text is what a
\* call that went through the fallback returns.
C11_PrimaryThenFallback ==
    Exchanging =>
      /\ xchg.trace # <<>> => xchg.trace[1].req = MachineCode
      /\ Len(xchg.trace) > 1 => ~PrimaryAnswered(xchg.trace)
      /\ FallbackOrder(xchg.trace)
      /\ (xchg.pc = "done" /\ PrimaryAnswered(xchg.trace)) =>
            xchg.ret = Some(xchg.trace[1].val)
      /\ (xchg.pc = "done" /\ xchg.trace # <<>> /\ ~PrimaryAnswered(xchg.trace)) =>
            /\ Len(xchg.trace) > 1
            /\ xchg.ret # None =>
                 /\ xchg.trace[Len(xchg.trace)].req = RrReply
                 /\ xchg.trace[Len(xchg.trace)].out = "ok"
                 /\ xchg.ret = Some(xchg.trace[Len(xchg.trace)].val)

\* C11 witness: a rejected POST, then the fallback with three polls
\* returned the fetched reply.
C11_Witness ==
    /\ xchg.pc = "done" /\ xchg.ret # None
    /\ Len(xchg.trace) = 7
    /\ xchg.trace[1].out = "ok"

-----------------------------------------------------------------------------
(* C12 *)

LastRequest(x) == x.trace[Len(x.trace)]
\* The call ended in the polling loop: its last request is a poll.
EndedPolling(x) ==
    /\ x.pc = "done" /\ Len(x.trace) >= 4
    /\ LastRequest(x).req = RrModelSeqs
\* The call fetched the reply after a poll saw the counter changed.
EndedFetched(x) ==
    /\ x.pc = "done" /\ Len(x.trace) >= 5
    /\ LastRequest(x).req = RrReply /\ LastRequest(x).out = "ok"

\* What is true of the polling loop in every state: the next poll is due no
\* later than one backoff delay after response_wait; a loop that ended on
\* an answered poll ended with the timeout error, after response_wait had
\* elapsed, and without a reply text; a call whose fetch was answered
\* returned the fetched text (unless crash detection refused it).
PollingLoopSafe ==
    /\ xchg.pc = "poll" => xchg.elapsed <= xchg.wait + delay_time(xchg.wait)
    /\ EndedPolling(xchg) =>
         /\ xchg.ret = None
         /\ xchg.err.cls = "JubileeCommunicationError"
         /\ LastRequest(xchg).out = "ok" =>
              /\ xchg.err.why = "timeout"
              /\ LastRequest(xchg).val = xchg.count0
              /\ xchg.elapsed > xchg.wait
    /\ (xchg.pc = "done" /\ xchg.err.why = "timeout") => EndedPolling(xchg)
    /\ (EndedFetched(xchg)
          /\ ~(crash_detection /\ Contains(LastRequest(xchg).val, CrashMarker))) =>
         xchg.ret = Some(LastRequest(xchg).val)

-----------------------------------------------------------------------------
(* C13 *)

\* A reply text with the crash marker came back in this call.
CrashReplied(x) ==
    \E i \in 1..Len(x.trace) :
       /\ x.trace[i].req \in {MachineCode, RrReply}
       /\ x.trace[i].out = "ok"
       /\ Contains(x.trace[i].val, CrashMarker)
       /\ i = 1 => Len(x.trace) = 1

\* C13 (as claimed): with crash_detection, a call that received a reply text
\* with the crash marker ends with an error that is not the communication
\* error, and returns no reply.
C13_CrashIsMachineFault ==
    (xchg.pc = "done" /\ crash_detection /\ CrashReplied(xchg)) =>
       /\ xchg.ret = None
       /\ xchg.err.cls \notin {"none", "JubileeCommunicationError"}

\* The two ways the code handles a crash reply: on the fallback path the
\* call ends with JubileeCommunicationError; on the primary path the crash
\* text is returned as the reply.
CrashBecomesCommunicationError ==
    /\ xchg.pc = "done" /\ crash_detection /\ EndedFetched(xchg)
    /\ Contains(LastRequest(xchg).val, CrashMarker)
    /\ xchg.err = Err("JubileeCommunicationError", "crash detected")
CrashReturnedAsReply ==
    /\ xchg.pc = "done" /\ crash_detection /\ Len(xchg.trace) = 1
    /\ xchg.ret # None /\ Contains(Val(xchg.ret), CrashMarker)

-----------------------------------------------------------------------------
(* C14 *)

\* The POST raised and a request of the fallback raised.
BothPathsRaised(x) ==
    /\ Len(x.trace) > 1
    /\ x.trace[1].out = "exc"
    /\ LastRequest(x).out = "exc"

\* C14: a call whose POST and whose fallback both raised a transport
\* exception ends with JubileeCommunicationError and returns nothing; a call
\* made while not connected ends with JubileeCommunicationError without
\* having made any request.
C14_CommunicationError ==
    (xchg.pc = "done" /\ ~simulated) =>
       /\ BothPathsRaised(xchg) =>
            /\ xchg.err.cls = "JubileeCommunicationError"
            /\ xchg.ret = None
       /\ session = "None" =>
            /\ xchg.trace = <<>>
            /\ xchg.err = Err("JubileeCommunicationError", "not connected")
            /\ xchg.ret = None

\* C14 witness: the POST raised, the counter was read, rr_gcode raised.
C14_Witness ==
    /\ xchg.pc = "done" /\ BothPathsRaised(xchg)
    /\ LastRequest(xchg).req = RrGcode
    /\ xchg.err.cls = "JubileeCommunicationError"

-----------------------------------------------------------------------------
(* connect, disconnect, reset *)

\* What the controller does besides gcode(): it makes or closes the
\* requests session, or sleeps two seconds.
NewSession == Cmd("requests.Session()")
CloseSession == Cmd("session.close()")
Sleep2 == Cmd("time.sleep(2)")
ReconnectWait == Cmd("time.sleep(2) before connect()")
Local(m, c) == [m EXCEPT !.log = Append(@, Sent(c, "local", <<>>))]

\* _create_requests_session
create_requests_session(m) ==
    IF m.simulated THEN m ELSE [Local(m, NewSession) EXCEPT !.session = "open"]

MaxTries == 15
ReconnectTries == 15

\* How the last gcode() call of m ended.
LastSt(m) == m.log[Len(m.log)].st
\* json.loads(func()) raised, or func() did.
AttemptRaised(r) == Raised(r) \/ LastSt(r) = "garbled"
\* not result.get("result")
ResultFalsy(r) == LastSt(r) = "empty" \/ r.ret = <<>>

\* The for loop of _retry_json with left attempts to go: the sleep is in
\* the except branch only.
RECURSIVE retry_loop(_, _, _)
retry_loop(m, c, left) ==
    IF left = 0 THEN Raise(m, "TimeoutError", "max retries")
    ELSE Bind(gcode(m, c), LAMBDA r :
           IF AttemptRaised(r)
           THEN retry_loop(Local([r EXCEPT !.err = NoErr], Sleep2), c, left - 1)
           ELSE IF ResultFalsy(r) THEN retry_loop(r, c, left - 1)
           ELSE r)

\* _retry_json(lambda: self.gcode(c)); the result is left in ret.
retry_json(m, c) ==
    IF Raised(m) THEN m
    ELSE IF m.simulated THEN [m EXCEPT !.ret = <<TRUE, TRUE, TRUE, TRUE>>]
    ELSE retry_loop(m, c, MaxTries)

get_configured_axes(m) ==
    IF Raised(m) THEN m
    ELSE IF m.simulated THEN [m EXCEPT !.ret = Axes]
    ELSE retry_json(m, M409Axes)

SimulatedStatusLimits == <<<<0, 200>>, <<0, 200>>, <<0, 200>>, <<0, 200>>>>
SimulatedConnectLimits == <<<<0, 300>>, <<0, 300>>, <<0, 300>>, <<0, 200>>>>

get_axis_limits(m) ==
    IF Raised(m) THEN m
    ELSE IF m.simulated THEN [m EXCEPT !.ret = SimulatedStatusLimits]
    ELSE retry_json(m, M409Limits)

\* self.x = <the value a call left in ret>, unless the call raised.
Assign(r, Set(_)) == IF Raised(r) THEN r ELSE Set(r)

\* The try block of connect().
connect_body(m) ==
    Bind(Assign(retry_json(create_requests_session(m), M409Homed),
                LAMBDA r : [r EXCEPT !.axes_homed = FirstFour(r.ret)]),
      LAMBDA r1 :
    Bind(Assign(get_configured_axes(r1),
                LAMBDA r : [r EXCEPT !.configured_axes = Some(r.ret)]),
      LAMBDA r2 :
    Bind(Assign(get_axis_limits(r2),
                LAMBDA r : [r EXCEPT !.axis_limits =
                                        [known |-> TRUE, list |-> r.ret]]),
      LAMBDA r3 : set_absolute_positioning(r3))))

\* except Exception as e: raise JubileeCommunicationError(...) from e
connect_except(r) ==
    IF Raised(r)
    THEN [r EXCEPT !.err = Err("JubileeCommunicationError", "connect")]
    ELSE r

\* A connect() that does not look at the session it already has.
connect_again(m) ==
    IF Raised(m) THEN m
    ELSE IF m.simulated THEN m
    ELSE connect_except(connect_body(m))

connect(m) ==
    IF Raised(m) THEN m
    ELSE IF m.simulated
    THEN [m EXCEPT !.axes_homed = <<TRUE, TRUE, TRUE, TRUE>>,
                   !.configured_axes = Some(Axes),
                   !.axis_limits = [known |-> TRUE,
                                    list |-> SimulatedConnectLimits]]
    ELSE IF m.session # "None" THEN m
    ELSE connect_except(connect_body(m))

disconnect(m) ==
    IF Raised(m) THEN m
    ELSE IF m.simulated THEN m
    ELSE IF m.session = "None" THEN m
    ELSE [Local(m, CloseSession) EXCEPT !.session = "None"]

\* A reconnect loop that goes on after any controller error of connect().
reconnect_catches_controller_errors(e) ==
    e.cls \in {"JubileeStateError", "JubileeCommunicationError"}

\* except JubileeStateError
reconnect_catches(e) == e.cls = "JubileeStateError"

\* for retries in range(15): sleep, connect, return.
RECURSIVE reconnect_loop(_, _)
reconnect_loop(m, left) ==
    IF left = 0 THEN Raise(m, "JubileeStateError", "reconnecting failed")
    ELSE Bind(connect(Local(m, ReconnectWait)), LAMBDA r :
           IF ~Raised(r) THEN r
           ELSE IF reconnect_catches(r.err)
           THEN reconnect_loop([r EXCEPT !.err = NoErr], left - 1)
           ELSE r)

\* The try block of reset().
reset_body(m) ==
    Bind(gcode(m, M999), LAMBDA r :
       IF Raised(r) THEN r
       ELSE reconnect_loop(
              disconnect([r EXCEPT !.axes_homed = <<FALSE, FALSE, FALSE, FALSE>>]),
              ReconnectTries))

\* except Exception as e: raise JubileeStateError("Reset failed.") from e
reset_except(r) ==
    IF Raised(r)
    THEN [r EXCEPT !.err = Err("JubileeStateError", "reset failed")]
    ELSE r

reset(m) ==
    IF Raised(m) THEN m
    ELSE IF m.simulated
    THEN connect([m EXCEPT !.axes_homed = <<FALSE, FALSE, FALSE, FALSE>>])
    ELSE reset_except(reset_body(m))

\* The calls that go wrong in one operation: calls k..to end in the same
\* way (the board is away for a while, or keeps answering nonsense).
ReplyKinds == {"lost", "noreply", "garbled", "empty"}
MaxFirst == 5
ScriptLens == {1, MaxTries - 1, MaxTries}
Scripts ==
    {[k |-> 0, to |-> 0, kind |-> "lost"]} \cup
    {[k |-> k, to |-> k + len - 1, kind |-> kind] :
        k \in 1..MaxFirst, len \in ScriptLens, kind \in ReplyKinds}
StartScript(f) == [Start(f.k, f.kind) EXCEPT !.fail = f]

Connect ==
    /\ last = Idle
    /\ \E f \in Scripts :
         \E r \in {connect(StartScript(f))} :
            /\ Commit(r)
            /\ last' = Call("connect", NoTarget, FALSE, None, r)
            /\ UNCHANGED mgrvars

Disconnect ==
    /\ last = Idle
    /\ \E r \in {disconnect(StartScript([k |-> 0, to |-> 0, kind |-> "lost"]))} :
          /\ Commit(r)
          /\ last' = Call("disconnect", NoTarget, FALSE, None, r)
          /\ UNCHANGED mgrvars

Reset ==
    /\ last = Idle
    /\ \E f \in Scripts :
         \E r \in {reset(StartScript(f))} :
            /\ Commit(r)
            /\ last' = Call("reset", NoTarget, FALSE, None, r)
            /\ UNCHANGED mgrvars

\* A connected controller; the board's axis limits may have been changed
\* since they were cached.
InitLifecycle ==
    /\ simulated = FALSE
    /\ session = "open"
    /\ board_homed \in {<<TRUE, TRUE, TRUE, TRUE>>, <<TRUE, TRUE, FALSE, TRUE>>,
                        <<FALSE, FALSE, FALSE, FALSE>>}
    /\ axes_homed = FirstFour(board_homed)
    /\ absolute_positioning = TRUE
    /\ axis_limits \in {[known |-> TRUE, list |-> l] : l \in {LimitsSmall, BoardLimits}}
    /\ configured_axes = Some(BoardAxes)
    /\ board_abs = TRUE
    /\ board_pos = StartPos
    /\ mounted = {}
    /\ crash_detection = FALSE
    /\ xchg = NoExchange
    /\ InitManager
    /\ InitLast

NextLifecycle ==
    \/ Connect
    \/ Disconnect
    \/ Reset
    \/ BoardLosesHoming
    \/ Return

SpecLifecycle == InitLifecycle /\ [][NextLifecycle]_vars

-----------------------------------------------------------------------------
(* C15 *)

\* The step is a call of op made from a state where no call is pending.
Calls(op) == last = Idle /\ last'.op = op
Populated ==
    /\ axes_homed = FirstFour(board_homed)
    /\ configured_axes = Some(BoardAxes)
    /\ axis_limits = [known |-> TRUE, list |-> BoardLimits]
SessionMade(log) == \E i \in 1..Len(log) : log[i].c = NewSession

\* C15: connect() on a controller that has a session sends nothing and
\* changes neither the session nor the cache; disconnect() without a session
\* does nothing; after any disconnect() there is no session; a connect()
\* that returns normally from there has made a new session and filled the
\* homing flags, the configured axes and the axis limits from the board's
\* replies.
C15_Idempotent ==
    [][/\ (Calls("connect") /\ session # "None") =>
            /\ last'.log = <<>> /\ last'.err = NoErr
            /\ UNCHANGED <<ctlvars, boardvars>>
       /\ (Calls("disconnect") /\ session = "None") =>
            /\ last'.log = <<>> /\ last'.err = NoErr
            /\ UNCHANGED <<ctlvars, boardvars>>
       /\ Calls("disconnect") =>
            /\ session' = "None" /\ last'.err = NoErr
            /\ Cmds(last'.log) \in {<<>>, <<CloseSession>>}
       /\ (Calls("connect") /\ session = "None" /\ last'.err = NoErr) =>
            /\ session' = "open"
            /\ SessionMade(last'.log)
            /\ Populated'
      ]_vars

\* C15 witness: connect() on a connected controller whose cached limits are
\* no longer those of the board returned without sending anything.
C15_Witness ==
    /\ last.op = "connect" /\ last.log = <<>> /\ last.err = NoErr
    /\ session = "open"
    /\ axis_limits.list # BoardLimits
\* A connect() after a disconnect() made a session and filled the cache.
ReconnectedAndPopulated ==
    /\ last.op = "connect" /\ SessionMade(last.log) /\ last.err = NoErr
    /\ Populated

-----------------------------------------------------------------------------
(* C16 *)

NoneHomed == <<FALSE, FALSE, FALSE, FALSE>>
\* reset() was called on a real controller and did not end with a
\* successful connect().
ResetWithoutReconnect == ~simulated /\ last.op = "reset" /\ last.err # NoErr

\* C16 (as claimed): after a reset() that did not reconnect, the cached
\* homing flags are all false and no configured axes or axis limits are
\* cached any more.
C16_ResetInvalidates ==
    ResetWithoutReconnect =>
       /\ axes_homed = NoneHomed
       /\ configured_axes = None
       /\ ~axis_limits.known

\* What the code leaves behind: the board ran M999 but its reply was lost,
\* and the cache still says homed; M999 was answered, the reconnect failed,
\* and the limits cached before the reset are still there.
ResetKeepsHomedFlags ==
    /\ ResetWithoutReconnect
    /\ last.log[1].c = M999 /\ last.log[1].st = "noreply"
    /\ axes_homed = AllTrue /\ board_homed = NoneHomed
ResetKeepsOldLimits ==
    /\ ResetWithoutReconnect
    /\ last.log[1].c = M999 /\ last.log[1].st = "ok"
    /\ axis_limits = [known |-> TRUE, list |-> LimitsSmall]

-----------------------------------------------------------------------------
(* C17 *)

\* The connect() attempts of a reset(): each follows its two-second wait.
Attempts(log) == Cardinality({i \in 1..Len(log) : log[i].c = ReconnectWait})
M999Answered(l) ==
    l.log # <<>> /\ l.log[1].c = M999 /\ l.log[1].st \notin {"lost", "noreply"}

\* C17 (as claimed): a reset() whose M999 was answered ends with an error
\* only after all of its connect() attempts have failed.
C17_AllAttemptsBeforeError ==
    (~simulated /\ last.op = "reset" /\ M999Answered(last) /\ last.err # NoErr) =>
       Attempts(last.log) = ReconnectTries

\* What the code does: the first failed connect() ends the reset.
ResetFailedAfterOneAttempt ==
    /\ ~simulated /\ last.op = "reset" /\ M999Answered(last)
    /\ last.err = Err("JubileeStateError", "reset failed")
    /\ Attempts(last.log) = 1
\* No reset() makes a second attempt.
ResetNeverRetries == last.op = "reset" => Attempts(last.log) <= 1

-----------------------------------------------------------------------------
(* C18 *)

\* The positions of the homing queries in the log of a connect().
HomingQueries(log) == {i \in 1..Len(log) : log[i].c = M409Homed}
\* connect() went past its session test and ran the homing-status refresh.
Refreshed(l) == l.op = "connect" /\ SessionMade(l.log)
GoodReply(e) == e.st = "ok" /\ e.reply # <<>>

\* C18 (as claimed): the refresh makes at most max_tries queries, stops at
\* the first reply that parses with a positive result, sleeps between every
\* two consecutive queries, and raises when no query gave such a reply.
C18_BoundedRetriesWithDelay ==
    Refreshed(last) =>
       /\ Cardinality(HomingQueries(last.log)) <= MaxTries
       /\ \A i \in HomingQueries(last.log) :
             /\ GoodReply(last.log[i]) =>
                  \A j \in HomingQueries(last.log) : j <= i
             /\ (i + 1) \notin HomingQueries(last.log)
       /\ (\A i \in HomingQueries(last.log) : ~GoodReply(last.log[i])) =>
             last.err # NoErr

\* What holds of the code: the bound, the stop at the first good reply, the
\* error when there is none, and a sleep after exactly those attempts that
\* raised (the last one included).
RetryLoopAsCoded ==
    Refreshed(last) =>
       /\ Cardinality(HomingQueries(last.log)) <= MaxTries
       /\ \A i \in HomingQueries(last.log) :
             /\ GoodReply(last.log[i]) =>
                  \A j \in HomingQueries(last.log) : j <= i
             /\ last.log[i].st \in {"lost", "noreply", "garbled"} =>
                  (i < Len(last.log) /\ last.log[i + 1].c = Sleep2)
             /\ (last.log[i].st = "empty" /\ i < Len(last.log)) =>
                  last.log[i + 1].c = M409Homed
       /\ (\A i \in HomingQueries(last.log) : ~GoodReply(last.log[i])) =>
             /\ last.err = Err("JubileeCommunicationError", "connect")
             /\ Cardinality(HomingQueries(last.log)) = MaxTries

\* Fifteen queries went out back to back, without any sleep.
RetriedWithoutDelay ==
    /\ Refreshed(last) /\ last.err # NoErr
    /\ Cardinality(HomingQueries(last.log)) = MaxTries
    /\ \A i \in 1..Len(last.log) : last.log[i].c # Sleep2

-----------------------------------------------------------------------------
(* C19 *)

\* C19 (as claimed): when a call ends with the communication error of
\* gcode(), the cached homing flags are all false afterwards.
C19_CommErrorInvalidates ==
    (~simulated /\ last.err = CommError) => \A i \in 1..Len(axes_homed) : ~axes_homed[i]

\* What the code does: a move whose G0 was lost ends with the communication
\* error and the cache still says that every axis is homed.
CommErrorKeepsHomedFlags ==
    /\ ~simulated /\ last.err = CommError
    /\ last.op \in {"move_to", "move"}
    /\ axes_homed = AllTrue

-----------------------------------------------------------------------------
(* Simulated mode *)

dwell(m, t, millis) ==
    IF Raised(m) \/ m.simulated THEN m ELSE gcode(m, G4(t, millis))

get_endstops(m) ==
    IF Raised(m) THEN m
    ELSE IF m.simulated THEN [m EXCEPT !.ret = [a \in AxisNames |-> "open"]]
    ELSE gcode(m, M119)

\* A call of one of the methods that take no target.
Plain(op, r) ==
    /\ Commit(r)
    /\ last' = Call(op, NoTarget, FALSE, None, r)
    /\ UNCHANGED mgrvars

DirectCmds == {G90, G91, M400, M114, M119, M409Homed, M999, G28("X")}
Gcode(c) ==
    /\ last = Idle
    /\ \E f \in Failures(1) : Plain("gcode", gcode(Start(f.k, f.kind), c))

DwellTimes == {0, 100}
Dwell(t, millis) ==
    /\ last = Idle
    /\ \E f \in Failures(1) :
          Plain("dwell", dwell(Start(f.k, f.kind), t, millis))

ToolLockCall ==
    /\ last = Idle
    /\ \E f \in Failures(1) : Plain("tool_lock", tool_lock(Start(f.k, f.kind)))

ToolUnlockCall ==
    /\ last = Idle
    /\ \E f \in Failures(1) :
          Plain("tool_unlock", tool_unlock(Start(f.k, f.kind)))

GetPosition ==
    /\ last = Idle
    /\ \E f \in Failures(1) :
          Plain("get_position", get_position(Start(f.k, f.kind)))

GetConfiguredAxes ==
    /\ last = Idle
    /\ \E f \in Scripts :
          Plain("get_configured_axes", get_configured_axes(StartScript(f)))

GetAxisLimits ==
    /\ last = Idle
    /\ \E f \in Scripts :
          Plain("get_axis_limits", get_axis_limits(StartScript(f)))

GetEndstops ==
    /\ last = Idle
    /\ \E f \in Failures(1) :
          Plain("get_endstops", get_endstops(Start(f.k, f.kind)))

\* JubileeController(simulated=True)
InitSimulated ==
    /\ InitController({NoneHomed}, {LimitsSmall})
    /\ simulated
    /\ InitManager
    /\ InitLast

NextSimulated ==
    \/ Return
    \/ Connect
    \/ Disconnect
    \/ Reset
    \/ \E c \in DirectCmds : Gcode(c)
    \/ HomeXYU
    \/ \E a1 \in Answers, a2 \in Answers, a3 \in Answers : HomeAll(a1, a2, a3)
    \/ \E t \in AbsTargets, wait \in BOOLEAN : MoveTo(t, wait)
    \/ \E t \in RelDeltas, wait \in BOOLEAN : Move(t, wait)
    \/ \E t \in DwellTimes, millis \in BOOLEAN : Dwell(t, millis)
    \/ ToolLockCall
    \/ ToolUnlockCall
    \/ \E i \in SeqIndexes, z \in SeqZParks : PickupToolSequence(i, z)
    \/ \E i \in SeqIndexes, z \in SeqZParks : ParkToolSequence(i, z)
    \/ GetPosition
    \/ GetConfiguredAxes
    \/ GetAxisLimits
    \/ GetEndstops

SpecSimulated == InitSimulated /\ [][NextSimulated]_vars

-----------------------------------------------------------------------------
(* C20 *)

\* A log entry of something that went to the network or made a session.
OnTheNetwork(e) == e.st # "sim"

\* C20: a simulated controller never has a session, none of its operations
\* makes a request or creates a session, and none ends with the
\* communication error.
C20_SimulatedOffline ==
    simulated =>
       /\ session = "None"
       /\ \A i \in 1..Len(last.log) : ~OnTheNetwork(last.log[i])
       /\ last.err.cls # "JubileeCommunicationError"

\* C20 witness: a simulated move_to with wait went through gcode() twice
\* (G0, M400) and nothing was sent.
C20_Witness ==
    /\ simulated /\ session = "None"
    /\ last.op = "move_to" /\ last.err = NoErr
    /\ Len(last.log) = 2
    /\ \A i \in 1..Len(last.log) : last.log[i].st = "sim"

-----------------------------------------------------------------------------
(* C21 *)

\* The latest sleeps of the polling loop in progress, oldest first.
Sleeps == IF xchg.pc \in {"none", "idle"} THEN <<>> ELSE xchg.sleeps

\* C21: during fallback polling the sleep that follows poll number n
\* (counted from 0) is the backoff table's entry for n: 0 after the first
\* poll, 0.1 s for n < 10, 0.2 s for n < 20, 0.3 s for n < 30, 1 s after
\* that; and no sleep is shorter than the one before it.
C21_BackoffByAttempt ==
    /\ \A i \in 1..Len(Sleeps) : Sleeps[i].secs = delay_time(Sleeps[i].n)
    /\ \A i \in 2..Len(Sleeps) : Sleeps[i - 1].secs <= Sleeps[i].secs

\* What the polling loop does: the table is read at the tenths of a second
\* elapsed since the command was submitted, whatever the number of polls.
BackoffByElapsedTime ==
    /\ \A i \in 1..Len(Sleeps) : Sleeps[i].secs = delay_time(Sleeps[i].at)
    /\ \A i \in 2..Len(Sleeps) :
          /\ Sleeps[i - 1].n + 1 = Sleeps[i].n
          /\ Sleeps[i - 1].at <= Sleeps[i].at
          /\ Sleeps[i - 1].secs <= Sleeps[i].secs

\* Six polls have gone by and the loop already sleeps 0.2 s.
LongSleepBeforeTenthPoll ==
    \E i \in 1..Len(Sleeps) : Sleeps[i].n < 6 /\ Sleeps[i].secs = 2


-----------------------------------------------------------------------------
(* The text of a G0 command *)

\* A Python number handed to _move_xyzu: milli is its value in thousandths,
\* int says it is an int, and bias where the double lies with respect to
\* milli / 1000 (-1 below, 0 exactly on it, 1 above).
Num(milli, bias, int) == [milli |-> milli, bias |-> bias, int |-> int]
IsDouble(v) == (v.bias = 0) <=> (v.milli % 125 = 0)
IsNum(v) == IF v.int THEN v.milli % 1000 = 0 /\ v.bias = 0 ELSE IsDouble(v)

Abs(k) == IF k < 0 THEN -k ELSE k
Digit == <<"0", "1", "2", "3", "4", "5", "6", "7", "8", "9">>
IsDigit(c) == \E i \in 1..10 : Digit[i] = c
DigitValue(c) == (CHOOSE i \in 1..10 : Digit[i] = c) - 1

\* The decimal digits of a natural number.
RECURSIVE Decimal(_)
Decimal(n) ==
    IF n < 10 THEN <<Digit[n + 1]>>
    ELSE Append(Decimal(n \div 10), Digit[(n % 10) + 1])

\* The magnitude of v in hundredths, rounded to the nearest; a double that
\* lies exactly half way goes to the even neighbour.
RoundedHundredths(v) ==
    LET a == Abs(v.milli)
        away == IF v.milli < 0 THEN -v.bias ELSE v.bias
    IN  IF a % 10 < 5 THEN a \div 10
        ELSE IF a % 10 > 5 THEN (a \div 10) + 1
        ELSE IF away > 0 THEN (a \div 10) + 1
        ELSE IF away < 0 THEN a \div 10
        ELSE IF (a \div 10) % 2 = 0 THEN a \div 10
        ELSE (a \div 10) + 1

Sign(v) == IF v.milli < 0 THEN <<"-">> ELSE <<>>
Fixed2(v, h) ==
    Sign(v) \o Decimal(h \div 100)
            \o <<".", Digit[((h \div 10) % 10) + 1], Digit[(h % 10) + 1]>>

\* A format that cuts the digits after the second instead of rounding.
format_2f_truncating(v) == Fixed2(v, Abs(v.milli) \div 10)

\* f"{value:.2f}"
format_2f(v) == Fixed2(v, RoundedHundredths(v))

\* f"{value}": str() of an int, of a float (the shortest digits that read
\* back as the same double), of None.
python_str(o) ==
    IF IsNone(o) THEN <<"N", "o", "n", "e">>
    ELSE LET v == Val(o)
             a == Abs(v.milli)
             f == a % 1000
         IN  Sign(v) \o Decimal(a \div 1000) \o
             (IF v.int THEN <<>>
              ELSE IF f % 100 = 0 THEN <<".", Digit[(f \div 100) + 1]>>
              ELSE IF f % 10 = 0
              THEN <<".", Digit[(f \div 100) + 1], Digit[((f \div 10) % 10) + 1]>>
              ELSE <<".", Digit[(f \div 100) + 1], Digit[((f \div 10) % 10) + 1],
                     Digit[(f % 10) + 1]>>)

\* The words of axes, {"X": x, "Y": y, "Z": z, "U": u, "F": s}, in order.
AxisWords == <<"X", "Y", "Z", "U", "F">>
Present(axes) == SelectSeq(AxisWords, LAMBDA a : ~IsNone(axes[a]))

\* cmd_parts: a word for each value that is not None, then param.
cmd_parts(axes, param) ==
    [i \in 1..Len(Present(axes)) |->
        <<Present(axes)[i]>> \o format_2f(Val(axes[Present(axes)[i]]))]
    \o (IF IsNone(param) THEN <<>> ELSE <<Val(param)>>)

\* The command _move_xyzu hands to gcode(): its words after "G0".
g0_words(sim, axes, param) ==
    IF sim
    THEN [i \in 1..Len(AxisWords) |->
            <<AxisWords[i]>> \o python_str(axes[AxisWords[i]])]
    ELSE cmd_parts(axes, param)

\* The numbers _move_xyzu is called with.
Millis == {0, 125, 12000, 12300, 12345, 2675, 9995, -1, -12345}
Nums ==
    {v \in {Num(k, b, i) : k \in Millis, b \in {-1, 0, 1}, i \in BOOLEAN} :
        IsNum(v)}
Twelve3 == Num(12300, 1, FALSE)
Twelve == Num(12000, 0, TRUE)
Twelve345 == Num(12345, 1, FALSE)
Coordinates == {None} \cup {Some(v) : v \in Nums}
FewCoordinates == {None, Some(Twelve), Some(Twelve345)}
Feeds == {Some(Num(6000000, 0, TRUE)), Some(Num(1500125, 0, FALSE))}
Params == {None, Some(<<"H", "4">>)}

\* _move_xyzu builds its G0; in simulated mode gcode() only logs it.
WriteG0 ==
    /\ last = Idle
    /\ \E x \in Coordinates, y, z, u \in FewCoordinates, s \in Feeds,
          p \in Params :
          LET axes == [a \in {"X", "Y", "Z", "U", "F"} |->
                         CASE a = "X" -> x [] a = "Y" -> y [] a = "Z" -> z
                           [] a = "U" -> u [] a = "F" -> s]
          IN  last' = [op |-> "_move_xyzu", axes |-> axes, param |-> p,
                       words |-> g0_words(simulated, axes, p),
                       sent |-> ~simulated]
    /\ UNCHANGED <<ctlvars, boardvars, mgrvars, gcodevars>>

InitFormat ==
    /\ InitController({<<TRUE, TRUE, TRUE, TRUE>>}, {LimitsLarge})
    /\ InitManager
    /\ InitLast

NextFormat ==
    \/ WriteG0
    \/ Return

SpecFormat == InitFormat /\ [][NextFormat]_vars

-----------------------------------------------------------------------------
(* C22 *)

\* text is digits, a point and exactly two digits, with or without a sign.
TwoDecimals(text) ==
    LET body == IF text # <<>> /\ text[1] = "-" THEN Tail(text) ELSE text
        n == Len(body)
    IN  /\ n >= 4
        /\ body[n - 2] = "."
        /\ \A i \in 1..n : i # n - 2 => IsDigit(body[i])

\* The hundredths a two-decimal text stands for (sign apart).
RECURSIVE Natural(_)
Natural(digits) ==
    IF digits = <<>> THEN 0
    ELSE 10 * Natural(SubSeq(digits, 1, Len(digits) - 1))
            + DigitValue(digits[Len(digits)])
HundredthsOf(text) ==
    LET body == IF text[1] = "-" THEN Tail(text) ELSE text
    IN  Natural(SelectSeq(body, IsDigit))

\* The G0 that was put together by the call that just ended.
WroteG0 == last # Idle /\ last.op = "_move_xyzu"

\* Word i of the G0 is the axis letter followed by the value of that axis
\* with two decimals, no further from the value than half a hundredth.
WordIsRounded(i) ==
    LET a == Present(last.axes)[i]
        v == Val(last.axes[a])
        w == last.words[i]
    IN  /\ w[1] = a
        /\ TwoDecimals(Tail(w))
        /\ (Tail(w)[1] = "-") = (v.milli < 0)
        /\ Abs(10 * HundredthsOf(Tail(w)) - Abs(v.milli)) <= 5
        /\ v.bias # 0 =>
              Abs(10 * HundredthsOf(Tail(w)) - Abs(v.milli)
                  - (IF v.milli < 0 THEN -v.bias ELSE v.bias)) <= 5

-----------------------------------------------------------------------------
(* get_position: the text of the M114 reply *)

IsSpace(c) == c \in {" ", "\t", "\n"}

\* The index of the first occurrence of pat in text, 0 when there is none.
Find(text, pat) ==
    LET at == {i \in 1..(Len(text) - Len(pat) + 1) :
                 SubSeq(text, i, i + Len(pat) - 1) = pat}
    IN  IF at = {} THEN 0 ELSE CHOOSE i \in at : \A j \in at : i <= j

\* "Count" in response
CountWord == <<"C", "o", "u", "n", "t">>
has_count(response) == Find(response, CountWord) # 0

\* A reply that is cut nowhere.
keep_everything(response) == response

\* response.split(" Count ", 1)[0]
keep_before_count(response) ==
    IF Find(response, <<" ">> \o CountWord \o <<" ">>) = 0 THEN response
    ELSE SubSeq(response, 1, Find(response, <<" ">> \o CountWord \o <<" ">>) - 1)

\* response.split(): the runs of characters between white space.
RunLength(text) ==
    IF \E i \in 1..Len(text) : IsSpace(text[i])
    THEN (CHOOSE i \in 1..Len(text) :
             IsSpace(text[i]) /\ \A j \in 1..(i - 1) : ~IsSpace(text[j])) - 1
    ELSE Len(text)
RECURSIVE split(_)
SplitAt(text, n) ==
    IF n = 0 THEN split(Tail(text))
    ELSE <<SubSeq(text, 1, n)>> \o split(SubSeq(text, n + 1, Len(text)))
split(text) == IF text = <<>> THEN <<>> ELSE SplitAt(text, RunLength(text))

\* float(pos_str) of a decimal text: its value in thousandths, or None where
\* Python raises ValueError.
Unsigned(s) == IF s # <<>> /\ s[1] \in {"-", "+"} THEN Tail(s) ELSE s
WholePart(s) == IF Find(s, <<".">>) = 0 THEN s ELSE SubSeq(s, 1, Find(s, <<".">>) - 1)
FracPart(s) == IF Find(s, <<".">>) = 0 THEN <<>> ELSE SubSeq(s, Find(s, <<".">>) + 1, Len(s))
IsDecimal(s) ==
    /\ \A i \in 1..Len(WholePart(s)) : IsDigit(WholePart(s)[i])
    /\ \A i \in 1..Len(FracPart(s)) : IsDigit(FracPart(s)[i])
    /\ Len(WholePart(s)) + Len(FracPart(s)) > 0
    /\ Len(FracPart(s)) <= 3
Thousandths(s) ==
    1000 * Natural(WholePart(s))
    + Natural(FracPart(s)) * (CASE Len(FracPart(s)) = 0 -> 0
                                [] Len(FracPart(s)) = 1 -> 100
                                [] Len(FracPart(s)) = 2 -> 10
                                [] OTHER -> 1)
python_float(s) ==
    IF ~IsDecimal(Unsigned(s)) THEN None
    ELSE IF s[1] = "-" THEN Some(-Thousandths(Unsigned(s)))
    ELSE Some(Thousandths(Unsigned(s)))

\* positions[axis] = value
Put(d, k, v) == [a \in (DOMAIN d) \cup {k} |-> IF a = k THEN v ELSE d[a]]
NoPositions == [a \in {} |-> None]

\* The for loop over response.split(): element.split(":", 1) and float().
RECURSIVE positions_of(_, _)
positions_of(elements, positions) ==
    IF elements = <<>> THEN positions
    ELSE positions_of(Tail(elements),
            IF Find(Head(elements), <<":">>) = 0 THEN positions
            ELSE Put(positions,
                     SubSeq(Head(elements), 1, Find(Head(elements), <<":">>) - 1),
                     python_float(SubSeq(Head(elements),
                                         Find(Head(elements), <<":">>) + 1,
                                         Len(Head(elements))))))

\* get_position once a reply with "Count" has come.
parse_position(response) ==
    positions_of(split(keep_before_count(response)), NoPositions)

max_tries == 50

\* get_position in connected mode: the first tries - 1 replies of M114 have
\* no "Count", then comes response, a transport failure, or nothing better.
get_position_text(sim, tries, outcome, response) ==
    IF sim
    THEN [tries |-> 0, err |-> NoErr,
          ret |-> [a \in {<<"X">>, <<"Y">>, <<"Z">>, <<"U">>} |-> Some(0)]]
    ELSE IF outcome = "raises"
    THEN [tries |-> tries, err |-> CommError, ret |-> NoPositions]
    ELSE IF ~has_count(response)
    THEN [tries |-> max_tries, ret |-> NoPositions,
          err |-> Err("JubileeCommunicationError", "no valid position")]
    ELSE [tries |-> tries, err |-> NoErr, ret |-> parse_position(response)]

\* The elements a reply is put together from, with what each stands for.
Element(text, axis, value) == [text |-> text, axis |-> axis, value |-> value]
X150 == Element(<<"X", ":", "1", ".", "5", "0">>, <<"X">>, Some(1500))
Y200 == Element(<<"Y", ":", "2", ".", "0", "0">>, <<"Y">>, Some(2000))
Z000 == Element(<<"Z", ":", "0", ".", "0", "0">>, <<"Z">>, Some(0))
U000 == Element(<<"U", ":", "0", ".", "0", "0">>, <<"U">>, Some(0))
XNeg == Element(<<"X", ":", "-", "7", ".", "2", "5">>, <<"X">>, Some(-7250))
ZBad == Element(<<"Z", ":", "a", "b", "c">>, <<"Z">>, None)
UEmpty == Element(<<"U", ":">>, <<"U">>, None)
Word == Element(<<"o", "k">>, <<>>, None)
E900 == Element(<<"E", ":", "9", ".", "0", "0">>, <<"E">>, Some(9000))
Zero == Element(<<"0">>, <<>>, None)

MaxElements == 2
Elements == {X150, Y200, XNeg, ZBad, UEmpty, Word}
Example == <<X150, Y200, Z000, U000>>
Prefixes ==
    {Example} \cup UNION {[1..n -> Elements] : n \in 0..MaxElements}
Suffixes == {<<Zero, Zero, Zero, Zero>>, <<E900, Zero>>}
Separators == {<<" ">>, <<" ", " ">>, <<"\t">>}
CountMarks == {<<" ">> \o CountWord \o <<" ">>, <<"\n">> \o CountWord \o <<" ">>,
               <<" ">>}

RECURSIVE Join(_, _)
Join(elements, sep) ==
    IF elements = <<>> THEN <<>>
    ELSE IF Len(elements) = 1 THEN elements[1].text
    ELSE elements[1].text \o sep \o Join(Tail(elements), sep)

Reply(prefix, sep, mark, suffix) ==
    Join(prefix, sep) \o mark \o Join(suffix, sep)

\* get_position() is called.
ReadPosition ==
    /\ last = Idle
    /\ \E prefix \in Prefixes, sep \in Separators, mark \in CountMarks,
          suffix \in Suffixes, tries \in {1, max_tries},
          outcome \in {"replies", "raises"} :
          /\ outcome = "raises" => /\ prefix = <<>>
                                   /\ sep = <<" ">>
                                   /\ mark = <<" ">>
                                   /\ suffix = <<E900, Zero>>
          /\ last' = [op |-> "get_position", prefix |-> prefix, mark |-> mark,
                      suffix |-> suffix, outcome |-> outcome,
                      response |-> Reply(prefix, sep, mark, suffix),
                      out |-> get_position_text(simulated, tries, outcome,
                                  Reply(prefix, sep, mark, suffix))]
    /\ UNCHANGED <<ctlvars, boardvars, mgrvars, gcodevars>>

NextPosition ==
    \/ ReadPosition
    \/ Return

SpecPosition == InitFormat /\ [][NextPosition]_vars

-----------------------------------------------------------------------------
(* C23 *)

\* What a list of elements stands for: each axis with the value of its last
\* element, None where that value is not a number.
RECURSIVE Meaning(_, _)
Meaning(elements, d) ==
    IF elements = <<>> THEN d
    ELSE Meaning(Tail(elements),
                 IF Head(elements).axis = <<>> THEN d
                 ELSE Put(d, Head(elements).axis, Head(elements).value))

ParsedPosition ==
    /\ last # Idle
    /\ last.op = "get_position"
    /\ ~simulated
    /\ last.out.err = NoErr

CutAtCount == last.mark = <<" ">> \o CountWord \o <<" ">>

\* C23: get_position keeps the text before the literal " Count " and maps
\* each AXIS:value element of it to its number: the example reply gives
\* X 1.50, Y 2.00, Z 0.00, U 0.00; nothing that follows " Count " is in the
\* result; a value that is not a number is recorded as None and nothing is
\* raised.
C23_ParsePosition ==
    /\ (ParsedPosition /\ CutAtCount) =>
          last.out.ret = Meaning(last.prefix, NoPositions)
    /\ (ParsedPosition /\ CutAtCount /\ last.prefix = Example) =>
          last.out.ret = (<<"X">> :> Some(1500)) @@ (<<"Y">> :> Some(2000))
                         @@ (<<"Z">> :> Some(0)) @@ (<<"U">> :> Some(0))
    /\ (last # Idle /\ last.op = "get_position" /\ last.outcome = "replies"
        /\ has_count(last.response)) => last.out.err = NoErr

C23_Witness ==
    /\ ParsedPosition
    /\ CutAtCount
    /\ last.prefix = <<X150, ZBad>>
    /\ last.suffix = <<E900, Zero>>
    /\ last.out.ret = (<<"X">> :> Some(1500)) @@ (<<"Z">> :> None)

\* The example reply was parsed.
ExampleParsed ==
    /\ ParsedPosition
    /\ CutAtCount
    /\ last.prefix = Example

-----------------------------------------------------------------------------
(* C24 *)

\* C24: in move_to and move an axis whose parameter is None is never the
\* axis of a limit error, and the G0 that is sent has a word for exactly
\* the axes whose parameter is not None, with the value given (0 included).
C24_NullAxesLeftAlone ==
    (~simulated /\ IsMove(last.op)) =>
      /\ \A i \in G0Sent(last.log) : \A a \in AxisNames :
            TargetOf(last.log[i].c, a) = TargetOf(last.t, a)
      /\ \A a \in AxisNames :
            last.err = Err("JubileeStateError", "axis limit " \o a) =>
               ~IsNone(TargetOf(last.t, a))

\* C24 witness: move_to(x=0) was sent as a G0 with an X word and no other
\* axis word, although Y, Z and U would be out of no range.
C24_Witness ==
    /\ ~simulated /\ last.op = "move_to" /\ last.err = NoErr
    /\ last.t = T(Some(0), None, None, None)
    /\ \E i \in G0Sent(last.log) :
          /\ last.log[i].st = "ok"
          /\ last.log[i].c = G0(Some(0), None, None, None, Some(DefaultSpeed), "%.2f")

-----------------------------------------------------------------------------
(* C25 *)

\* gcode() returned for this command: the board's reply was received.
Replied(e) == e.st \in {"ok", "garbled", "empty"}

\* C25: a move sends M400 exactly when wait is true and its G0 was sent and
\* answered: the M400 is the command right after the G0 and the last of the
\* call, and the call returns normally only once the M400 was answered; an
\* M400 that gets no reply ends the call with the communication error.
C25_WaitSendsM400 ==
    (~simulated /\ IsMove(last.op)) =>
      /\ \A i \in Wire(last.log) : last.log[i].c = M400 =>
            /\ last.wait
            /\ i = Len(last.log)
            /\ (i - 1) \in G0Sent(last.log)
            /\ Replied(last.log[i - 1])
            /\ IF Replied(last.log[i]) THEN last.err = NoErr
               ELSE last.err = CommError
      /\ \A i \in G0Sent(last.log) :
            IF last.wait /\ Replied(last.log[i])
            THEN i + 1 = Len(last.log) /\ last.log[i + 1].c = M400
            ELSE i = Len(last.log)

\* C25 witness: a move with wait = TRUE returned after its M400 was answered,
\* and the board has moved.
C25_Witness ==
    /\ ~simulated /\ last.op = "move" /\ last.wait /\ last.err = NoErr
    /\ Len(last.log) = 5
    /\ last.log[4].c.cmd = "G0" /\ last.log[4].st = "ok"
    /\ last.log[5] = Sent(M400, "ok", <<>>)

\* A move without wait returns right after its G0.
ReturnedWithoutWaiting ==
    /\ ~simulated /\ last.op = "move_to" /\ ~last.wait /\ last.err = NoErr
    /\ Len(last.log) = 3 /\ last.log[3].c.cmd = "G0"

-----------------------------------------------------------------------------
(* C26 *)

ModeCommand(op) == IF op = "move_to" THEN G90 ELSE G91

\* The commands of a move_to (G90, homing query, G0, M400) or of a move
\* (G91, M114, homing query, G0, M400), in the order of the code.
MoveCommands(l) ==
    <<ModeCommand(l.op)>>
    \o (IF l.op = "move" THEN <<M114>> ELSE <<>>)
    \o <<M409Homed, G0(l.t.x, l.t.y, l.t.z, l.t.u, Some(DefaultSpeed), "%.2f")>>
    \o (IF l.wait THEN <<M400>> ELSE <<>>)

\* The axes of the call's target that leave their cached limits: the target
\* itself for move_to, position + delta for move.
BeyondLimits(l, axes) ==
    IF l.op = "move_to" THEN OutsideLimits(l.t, axes)
    ELSE {a \in axes :
            /\ AxisIndex(a) <= Len(axis_limits.list)
            /\ ~IsNone(TargetOf(l.t, a))
            /\ OutOfRange(axis_limits.list[AxisIndex(a)],
                          l.log[2].reply[a] + Val(TargetOf(l.t, a)))}

\* The call got as far as its limit check with what the check needs.
ReachedLimitCheck(l) ==
    /\ ModeSet(l)
    /\ l.op = "move" => PositionRead(l)

\* The order of the steps: mode command, M114 for move, homing query, G0.
StepsInOrder ==
    (~simulated /\ IsMove(last.op)) =>
      /\ IsPrefix(Cmds(last.log), MoveCommands(last))
      /\ AnsweredBeforeNext(last.log)
      /\ \A i \in G0Sent(last.log) :
            /\ last.log[1] = Sent(ModeCommand(last.op), "ok", <<>>)
            /\ \A j \in 2..i : last.log[j].c \notin {G90, G91}
            /\ last.log[i - 1].c = M409Homed

\* C26: move_to and move send the mode command (G90 / G91) first, then
\* validate the target against the axis limits (move after an M114), then
\* pass the homing gate, then send the G0: every G0 comes after the matching
\* mode command of the same call with no other mode command between, and a
\* call whose target violates an axis limit on a board that is not homed
\* ends with the limit error.
C26_ModeLimitsGateMove ==
    /\ StepsInOrder
    /\ (~simulated /\ IsMove(last.op) /\ ReachedLimitCheck(last)
        /\ BeyondLimits(last, AxisNames) # {}) => IsLimitError(last.err)

\* What holds of the limit error: it comes before the homing gate for the
\* axes that are checked, X, Y and Z.
LimitBeforeGateXYZ ==
    (~simulated /\ IsMove(last.op) /\ ReachedLimitCheck(last)
     /\ BeyondLimits(last, {"X", "Y", "Z"}) # {}) =>
        /\ IsLimitError(last.err)
        /\ \A i \in 1..Len(last.log) : last.log[i].c # M409Homed

\* X beyond its limit on a board that is not homed: the limit error.
LimitAndGateViolated ==
    /\ ~simulated /\ IsMove(last.op) /\ ReachedLimitCheck(last)
    /\ BeyondLimits(last, {"X", "Y", "Z"}) # {}
    /\ ~AllHomed4(board_homed)
    /\ IsLimitError(last.err)

-----------------------------------------------------------------------------
(* C27 *)

\* The homing queries a call sent.
HomingQueriesOf(log) == {i \in Wire(log) : log[i].c = M409Homed}

\* C27: the homing gate of move_to and move looks at the cached axes_homed
\* first: with a cache that says all four axes homed it sends no homing
\* query; otherwise it sends exactly one, stores the answer in the cache and
\* fails with the not-homed error only if the answer has an unhomed axis.
C27_GateReadsCacheFirst ==
    [][(~simulated /\ last = Idle /\ IsMove(last'.op)) =>
         IF AllHomed4(axes_homed)
         THEN HomingQueriesOf(last'.log) = {}
         ELSE \A i \in HomedReplies(last'.log) :
                 /\ HomingQueriesOf(last'.log) = {i}
                 /\ axes_homed' = FirstFour(last'.log[i].reply)
                 /\ (last'.err = NotHomedError)
                       <=> ~AllHomed4(last'.log[i].reply)]_vars

\* What the gate does: it asks the board in every call that reaches it,
\* whatever the cache says, and leaves the cache as it was.
GateAlwaysAsks ==
    [][(~simulated /\ last = Idle /\ IsMove(last'.op)) =>
         /\ (G0Sent(last'.log) # {} \/ last'.err = NotHomedError) =>
               \E i \in HomedReplies(last'.log) : HomingQueriesOf(last'.log) = {i}
         /\ \A i \in HomedReplies(last'.log) :
               (last'.err = NotHomedError) <=> ~AllHomed4(last'.log[i].reply)
         /\ axes_homed' = axes_homed]_vars

\* A move asked the board although the cache said all four axes homed.
AskedDespiteCache ==
    /\ ~simulated /\ IsMove(last.op) /\ last.err = NoErr
    /\ AllHomed4(axes_homed)
    /\ HomingQueriesOf(last.log) # {}

-----------------------------------------------------------------------------
(* Boards with fewer or more than four axes *)

MaxAxes == 5
AllFlags(n, b) == [i \in 1..n |-> b]

\* After construction: simulated (nothing cached), or connected to a board
\* with n axes, whose flags, letters and limits connect() has cached.
InitAxes ==
    /\ simulated \in BOOLEAN
    /\ board_homed \in (IF simulated THEN {AllFlags(4, FALSE)}
                        ELSE {AllFlags(n, b) : n \in 1..MaxAxes, b \in BOOLEAN})
    /\ session = IF simulated THEN "None" ELSE "open"
    /\ axes_homed = IF simulated THEN AllFlags(4, FALSE)
                    ELSE FirstFour(board_homed)
    /\ absolute_positioning = TRUE
    /\ axis_limits = IF simulated THEN [known |-> FALSE, list |-> <<>>]
                     ELSE [known |-> TRUE,
                           list |-> LimitsOn([board_homed |-> board_homed])]
    /\ configured_axes = IF simulated THEN None
                         ELSE Some(AxesOn([board_homed |-> board_homed]))
    /\ board_abs = TRUE
    /\ board_pos = StartPos
    /\ mounted = {}
    /\ crash_detection = FALSE
    /\ xchg = NoExchange
    /\ InitManager
    /\ InitLast

FarTargets ==
    { T(Some(50), None, None, None), T(Some(1000), None, None, None),
      T(None, None, Some(1000), None) }
FarDeltas == { T(None, None, Some(1000), None), T(Some(10), None, None, None) }

NextAxes ==
    \/ Return
    \/ BoardLosesHoming
    \/ \E t \in FarTargets : MoveTo(t, FALSE)
    \/ \E t \in FarDeltas : board_pos = StartPos /\ Move(t, FALSE)
    \/ HomeXYU
    \/ HomeAll("n", "n", "y")
    \/ Connect
    \/ Disconnect
    \/ Reset

SpecAxes == InitAxes /\ [][NextAxes]_vars

-----------------------------------------------------------------------------
(* C28 *)

\* No limits are cached for axis a: there is no list, or the list is too
\* short to have an entry for a.
NoLimitsFor(a) == ~axis_limits.known \/ AxisIndex(a) > Len(axis_limits.list)

GivenAxes(t) == {a \in AxisNames : ~IsNone(TargetOf(t, a))}

\* The call came as far as the homing gate: the query was sent, or, in
\* simulated mode where the gate is open, the G0 was handed to gcode().
CameToGate(l) ==
    IF simulated THEN \E i \in 1..Len(l.log) : IsG0(l.log[i])
    ELSE HomingQueriesOf(l.log) # {}

\* The steps before the limit check went through.
CameToLimitCheck(l) == simulated \/ ReachedLimitCheck(l)

ConnectedHasLimits ==
    ~simulated => axis_limits.known /\ axis_limits.list # <<>>

\* The simulated controller has no list and its moves go through.
SimulatedWithoutLimits ==
    /\ simulated /\ last.op = "move_to" /\ last.err = NoErr
    /\ ~axis_limits.known
    /\ last.t = T(Some(1000), None, None, None)

-----------------------------------------------------------------------------
(* C29 *)

\* C29: the cached axes_homed always has exactly four boolean entries, for
\* X, Y, Z and U, whatever the number of axes the board reports.
C29_FourFlags ==
    /\ Len(axes_homed) = 4
    /\ \A i \in 1..Len(axes_homed) : axes_homed[i] \in BOOLEAN

\* What holds: never more than four flags; fewer when the board reported
\* fewer and no home_xyu or home_all has rewritten the list since.
AtMostFourFlags ==
    /\ Len(axes_homed) \in {4, Min(4, Len(board_homed))}
    /\ \A i \in 1..Len(axes_homed) : axes_homed[i] \in BOOLEAN

\* connect() cached three flags from a board with three axes.
ConnectCachedThreeFlags ==
    /\ last.op = "connect" /\ last.err = NoErr
    /\ HomedReplies(last.log) # {}
    /\ Len(board_homed) = 3
    /\ Len(axes_homed) = 3

\* With three flags cached, home_xyu fails at self.axes_homed[3] = True
\* after the board has homed U.
HomingFailsOnShortCache ==
    /\ last.op = "home_xyu"
    /\ Len(axes_homed) = 3
    /\ last.err = Err("JubileeHomingError", "failed to home XYU axes")
    /\ Len(last.log) = 1 /\ last.log[1] = Sent(G28("U"), "ok", <<>>)

-----------------------------------------------------------------------------
(* C30 *)

IsHoming(op) == op \in {"home_xyu", "home_all"}

\* C30: home_xyu and home_all write the cached axes_homed once, at the end
\* of a sequence in which every step succeeded; a call in which a G28, the
\* G90 or the homing re-query failed leaves axes_homed as it was before the
\* call.
C30_AtomicHomingUpdate ==
    [][(last = Idle /\ IsHoming(last'.op) /\ last'.err # NoErr) =>
          axes_homed' = axes_homed]_vars

\* home_xyu failed at G28 Y and U is marked homed in a cache that said
\* nothing was homed.
MarkedHomedByFailedSequence ==
    /\ ~simulated /\ last.op = "home_xyu"
    /\ last.err = Err("JubileeHomingError", "failed to home XYU axes")
    /\ Len(last.log) = 2 /\ last.log[2].c = G28("Y") /\ last.log[2].st = "lost"
    /\ axes_homed = <<FALSE, FALSE, FALSE, TRUE>>

-----------------------------------------------------------------------------
(* C31 *)

\* C31: home_all ends either having homed the axes (all four homing
\* commands answered, the cache all true) or with a homing error: a declined
\* confirmation and a failed sub-step both raise JubileeHomingError.
C31_HomedOrHomingError ==
    last.op = "home_all" =>
      IF last.err = NoErr
      THEN /\ last.confirm = "accepted"
           /\ axes_homed = AllTrue
           /\ ~simulated => \A a \in AxisNames : Answered(last.log, G28(a))
      ELSE last.err.cls = "JubileeHomingError"

\* home_all returned normally after the operator said the deck is not
\* clear: nothing was homed and nothing was raised.
DeclinedReturnsNormally ==
    /\ ~simulated /\ last.op = "home_all"
    /\ last.confirm = "declined" /\ last.err = NoErr
    /\ last.log = <<>>
    /\ axes_homed # AllTrue

\* input() raised EOFError at the second or third prompt: it leaves
\* home_all as it is.
PromptErrorUntyped ==
    /\ last.op = "home_all"
    /\ last.err = Err("EOFError", "input")

\* What holds: a sub-step that fails once the gate accepted ends the call
\* with JubileeHomingError, and an accepted call that returns has homed.
AcceptedHomesOrRaises ==
    (last.op = "home_all" /\ last.confirm = "accepted") =>
      IF last.err = NoErr
      THEN /\ axes_homed = AllTrue
           /\ ~simulated => \A a \in AxisNames : Answered(last.log, G28(a))
      ELSE last.err.cls = "JubileeHomingError"

-----------------------------------------------------------------------------
(* C32 *)

\* The requests that carry a command to the board.
Submission(r) == r.req \in {MachineCode, RrGcode}
SubmissionsOf(x, req) == {i \in 1..Len(x.trace) : x.trace[i].req = req}
\* This step made a request that carries a command.
Submits(x, y) ==
    /\ Len(y.trace) = Len(x.trace) + 1
    /\ Submission(LastRequest(y))
\* How a call has ended: with an error (the timeout among them) and no
\* text, or with the text of the answered POST or of the fetched reply.
Ended(x) ==
    /\ x.pc = "done"
    /\ \/ x.err # NoErr /\ x.ret = None
       \/ /\ x.err = NoErr /\ x.ret # None
          /\ \/ simulated /\ x.trace = <<>>
             \/ /\ x.trace # <<>>
                /\ LastRequest(x).out = "ok"
                /\ LastRequest(x).req \in {MachineCode, RrReply}
                /\ x.ret = Some(LastRequest(x).val)

-----------------------------------------------------------------------------
(* C36 *)

\* C36: for one gcode(cmd) call the board takes cmd at most once.
C36_ExecutedAtMostOnce == xchg.taken <= 1

\* The POST raised after the board had taken the command, and rr_gcode gave
\* the board the same command again.
TakenTwice ==
    /\ xchg.taken = 2
    /\ Len(xchg.trace) >= 3
    /\ xchg.trace[1].req = MachineCode /\ xchg.trace[1].out = "exc"
    /\ xchg.trace[3].req = RrGcode

\* What holds: a POST that was answered is the only time the board takes the
\* command (a rejected one is taken on the fallback alone), and no call
\* gives the board its command more than twice.
AnsweredPostTakenOnce ==
    /\ xchg.taken <= 2
    /\ (Exchanging /\ xchg.trace # <<>> /\ xchg.trace[1].out = "ok") =>
          xchg.taken <= 1
    /\ (xchg.pc = "done" /\ PrimaryAnswered(xchg.trace)) => xchg.taken = 1

-----------------------------------------------------------------------------
(* fake_home *)

\* axis.upper(), on the letters that are given as arguments here.
upper(a) ==
    CASE a = "x" -> "X" [] a = "y" -> "Y" [] a = "z" -> "Z"
      [] a = "u" -> "U" [] a = "v" -> "V"
      [] OTHER -> a

\* for axis in args: the TypeError for an unknown axis, else G92 <AXIS>0.
RECURSIVE fake_home_axes(_, _)
fake_home_axes(m, args) ==
    IF Raised(m) \/ args = <<>> THEN m
    ELSE IF upper(Head(args)) \notin {"X", "Y", "Z", "U"}
    THEN Raise(m, "TypeError", "unknown axis")
    ELSE fake_home_axes(gcode(m, G92(upper(Head(args)))), Tail(args))

\* A fake_home that does not look at confirm.
fake_home_unconfirmed(m, args, confirm) ==
    IF Raised(m) \/ m.simulated THEN m
    ELSE fake_home_axes(m, args)

\* fake_home(*args, confirm=confirm)
fake_home(m, args, confirm) ==
    IF Raised(m) \/ m.simulated THEN m
    ELSE IF ~confirm
    THEN Raise(m, "RuntimeError", "set confirm=True")
    ELSE fake_home_axes(m, args)

\* The axis arguments: at most MaxArgs of these letters.
MaxArgs == 2
ArgLetters == {"X", "y", "u", "V"}
ArgLists == UNION {[1..n -> ArgLetters] : n \in 0..MaxArgs}

\* What is recorded of a fake_home call: its arguments as well.
FakeHome(args, confirm) ==
    /\ last = Idle
    /\ \E f \in Failures(Len(args)) :
         \E r \in {fake_home(Start(f.k, f.kind), args, confirm)} :
            /\ Commit(r)
            /\ last' = [Call("fake_home", NoTarget, FALSE, Some(args), r)
                          EXCEPT !.confirm = IF confirm THEN "True" ELSE "False"]
            /\ UNCHANGED mgrvars

NextFakeHome ==
    \/ Return
    \/ BoardLosesHoming
    \/ HomeXYU
    \/ \E args \in ArgLists, confirm \in BOOLEAN : FakeHome(args, confirm)

SpecFakeHome == InitHoming /\ [][NextFakeHome]_vars

-----------------------------------------------------------------------------
(* C33 *)

\* The G92 commands, for a known axis or not.
IsG92(e) == \E a \in {upper(l) : l \in ArgLetters} \cup AxisNames : e.c = G92(a)
G92Sent(log) == {i \in Wire(log) : IsG92(log[i])}
G92Allowed == {G92(a) : a \in AxisNames}

\* C33 (as claimed): fake_home without confirm=True raises an error and
\* sends no G92; a G92 is only sent by fake_home with confirm=True, and only
\* for X, Y, Z or U.
C33_Original ==
    /\ (last.op = "fake_home" /\ last.confirm = "False") =>
          last.err # NoErr /\ G92Sent(last.log) = {}
    /\ \A i \in G92Sent(last.log) :
          /\ last.op = "fake_home" /\ last.confirm = "True"
          /\ last.log[i].c \in G92Allowed

\* C33: on a controller that is not simulated fake_home without
\* confirm=True raises RuntimeError, on a simulated one it returns without
\* an error; in both it sends no G92 and leaves cache and board as they
\* were.  A G92 is only sent by fake_home with confirm=True, and only for X,
\* Y, Z or U.
C33_FakeHomeNeedsConfirm ==
    [][/\ (last'.op = "fake_home" /\ last'.confirm = "False") =>
            /\ last'.err = IF simulated THEN NoErr
                           ELSE Err("RuntimeError", "set confirm=True")
            /\ last'.log = <<>>
            /\ UNCHANGED <<ctlvars, boardvars>>
       /\ \A i \in G92Sent(last'.log) :
            /\ last'.op = "fake_home" /\ last'.confirm = "True"
            /\ last'.log[i].c \in G92Allowed
            /\ \E j \in 1..Len(Val(last'.index)) :
                  last'.log[i].c = G92(upper(Val(last'.index)[j]))]_vars

\* C33 witness: fake_home('X', 'y') without confirm raised RuntimeError on
\* a controller that is not simulated.
C33_Witness ==
    /\ ~simulated /\ last.op = "fake_home" /\ last.confirm = "False"
    /\ last.index = Some(<<"X", "y">>)
    /\ last.err.cls = "RuntimeError"

\* fake_home without confirm returned on a simulated controller.
SimulatedFakeHomeReturns ==
    /\ simulated /\ last.op = "fake_home" /\ last.confirm = "False"
    /\ last.index # Some(<<>>)
    /\ last.err = NoErr

\* fake_home('X', 'V', confirm=True): G92 X0 was sent and answered before the
\* unknown axis raised TypeError.
SentBeforeUnknownAxis ==
    /\ last.op = "fake_home" /\ last.err.cls = "TypeError"
    /\ G92Sent(last.log) # {}

-----------------------------------------------------------------------------
(* C34 *)

\* The call raised cls before anything was sent (or logged, when
\* simulated) and left manager, controller and board as they were.
RefusedWith(cls) ==
    /\ last'.err.cls = cls
    /\ last'.log = <<>>
    /\ UNCHANGED <<mgrvars, ctlvars, boardvars>>

\* C34: pickup_tool(index) while a tool is active, or while the slot at
\* index is empty, raises ToolStateError before any controller command and
\* leaves active_tool_index as it was (an index that is no slot is refused
\* the same way with ToolConfigurationError); park_active_tool without an
\* active tool raises ToolStateError and sends nothing.  A pickup_tool that
\* returns has set active_tool_index to index, a park_active_tool that
\* returns has set it to None.
C34_ToolStateGuards ==
    [][/\ last'.op = "pickup_tool" =>
            IF ~IsNone(active_tool_index)
            THEN RefusedWith("ToolStateError")
            ELSE IF ~InBounds(Val(last'.index))
            THEN RefusedWith("ToolConfigurationError")
            ELSE IF tools_list[Val(last'.index)] = NoTool
            THEN RefusedWith("ToolStateError")
            ELSE last'.err = NoErr =>
                   /\ active_tool_index' = last'.index
                   /\ ~simulated => Wire(last'.log) # {}
       /\ last'.op = "park_active_tool" =>
            IF IsNone(active_tool_index)
            THEN RefusedWith("ToolStateError")
            ELSE last'.err = NoErr =>
                   /\ active_tool_index' = None
                   /\ ~simulated => Wire(last'.log) # {}]_vars

\* C34 witness: pickup_tool of a loaded slot was refused because another
\* tool is active.
C34_Witness ==
    /\ last.op = "pickup_tool" /\ last.err.cls = "ToolStateError"
    /\ last.log = <<>>
    /\ ~IsNone(active_tool_index) /\ active_tool_index # last.index
    /\ InBounds(Val(last.index))
    /\ tools_list[Val(last.index)] # NoTool

\* park_active_tool refused without an active tool; a pickup that returned.
ParkRefused ==
    /\ last.op = "park_active_tool" /\ last.err.cls = "ToolStateError"
    /\ IsNone(active_tool_index)
PickedUp ==
    /\ last.op = "pickup_tool" /\ last.err = NoErr
    /\ active_tool_index = last.index

-----------------------------------------------------------------------------
(* JubileeManager: decks, offsets, names, reset *)

\* change_tool
change_tool(g, tool, index) ==
    IF ~InBounds(index)
    THEN RaiseM(g, "ToolConfigurationError", "index out of bounds")
    ELSE IF g.tools_list[index] = NoTool
    THEN RaiseM(g, "ToolStateError", "no tool to replace at index")
    ELSE IF \E i \in Loaded(g) : g.tools_list[i] = tool
    THEN RaiseM(g, "ToolStateError", "tool already loaded")
    ELSE [g EXCEPT !.tools_list[index] = tool]

\* set_tool_offset
set_tool_offset(g, index, offset) ==
    IF ~InBounds(index)
    THEN RaiseM(g, "ToolConfigurationError", "index out of bounds")
    ELSE IF g.tools_list[index] = NoTool
    THEN RaiseM(g, "ToolStateError", "no tool loaded at index")
    ELSE [g EXCEPT !.tool_offsets[index] = Some(offset)]

\* tool.name of the tool objects
ToolName(tool) == IF tool = "A" THEN "pipette" ELSE "camera"
ToolNames == {"pipette", "camera", "syringe"}

\* set_active_tool_by_name: the first slot, in the order of the dict, whose
\* tool has the name.
set_active_tool_by_name(g, tool_name) ==
    LET named == {i \in Loaded(g) : ToolName(g.tools_list[i]) = tool_name}
    IN IF named = {}
       THEN RaiseM(g, "ToolStateError", "no tool loaded with this name")
       ELSE [g EXCEPT !.active_tool_index =
                         Some(CHOOSE i \in named : \A j \in named : i <= j)]

\* load_deck: Deck(deck_filename, path) builds the deck (readable) or raises.
load_deck(g, deck_filename, readable) ==
    IF g.deck # NoDeck
    THEN RaiseM(g, "DeckStateError", "deck already loaded")
    ELSE IF ~readable
    THEN RaiseM(g, "DeckConfigurationError", "failed to load deck")
    ELSE [g EXCEPT !.deck = deck_filename]

\* unload_deck
unload_deck(g) ==
    IF g.deck = NoDeck
    THEN RaiseM(g, "DeckStateError", "no deck loaded")
    ELSE [g EXCEPT !.deck = NoDeck]

\* JubileeManager.reset
manager_reset(g) ==
    Bind(unload_all_tools(g), LAMBDA g1 :
      IF Raised(g1.c) THEN g1
      ELSE Bind(IF g1.deck # NoDeck THEN unload_deck(g1) ELSE g1, LAMBDA g2 :
             IF Raised(g2.c) THEN g2
             ELSE [g2 EXCEPT !.active_tool_index = None,
                             !.tool_offsets = NoOffsets]))

\* The offset and deck file given here; their z is 0, as ManagerZPark
\* has it.
Offsets == {<<1, 2, 0>>}
DeckFiles == {"lab_automation_deck"}

ManagerCall(op, index, g) ==
    /\ CommitM(g)
    /\ last' = Call(op, NoTarget, FALSE, index, g.c)

ChangeTool(tool, index) ==
    /\ last = Idle
    /\ ManagerCall("change_tool", Some(index),
                   change_tool(StartM(0, "lost"), tool, index))

SetToolOffset(index, offset) ==
    /\ last = Idle
    /\ ManagerCall("set_tool_offset", Some(index),
                   set_tool_offset(StartM(0, "lost"), index, offset))

SetActiveToolByName(tool_name) ==
    /\ last = Idle
    /\ ManagerCall("set_active_tool_by_name", None,
                   set_active_tool_by_name(StartM(0, "lost"), tool_name))

LoadDeck(deck_filename, readable) ==
    /\ last = Idle
    /\ ManagerCall("load_deck", None,
                   load_deck(StartM(0, "lost"), deck_filename, readable))

UnloadDeck ==
    /\ last = Idle
    /\ ManagerCall("unload_deck", None, unload_deck(StartM(0, "lost")))

ManagerReset ==
    /\ last = Idle
    /\ ManagerCall("manager.reset", None, manager_reset(StartM(0, "lost")))

NextRegistry ==
    \/ Return
    \/ \E tool \in ToolObjects, i \in 0..MAX_TOOLS : LoadTool(tool, i)
    \/ \E tool \in ToolObjects, i \in 0..MAX_TOOLS : ChangeTool(tool, i)
    \/ \E i \in 0..MAX_TOOLS : UnloadTool(i)
    \/ UnloadAllTools
    \/ \E i \in 0..MAX_TOOLS, o \in Offsets : SetToolOffset(i, o)
    \/ \E i \in 0..MAX_TOOLS : SetActiveTool(i)
    \/ \E n \in ToolNames : SetActiveToolByName(n)
    \/ \E d \in DeckFiles, readable \in BOOLEAN : LoadDeck(d, readable)
    \/ UnloadDeck
    \/ \E i \in 0..MAX_TOOLS : PickupTool(i)
    \/ ParkActiveTool
    \/ ManagerReset

SpecRegistry == InitManagerSpec /\ [][NextRegistry]_vars

-----------------------------------------------------------------------------
(* C35 *)

\* Nothing is left in the manager.
ManagerEmpty ==
    /\ \A i \in DOMAIN tools_list : tools_list[i] = NoTool
    /\ deck = NoDeck
    /\ active_tool_index = None
    /\ tool_offsets = NoOffsets

\* C35: reset() completes in every manager state and leaves no tool, no
\* deck, no active tool and no offsets.
C35_ResetClearsEverything ==
    last.op = "manager.reset" => (last.err = NoErr /\ ManagerEmpty)

\* reset() with a deck and no tool loaded raised ToolStateError and left
\* the deck loaded.
ResetLeftDeck ==
    /\ last.op = "manager.reset"
    /\ last.err = Err("ToolStateError", "no tools to unload")
    /\ deck # NoDeck

\* What holds: with a tool loaded reset() completes and empties the
\* manager; without one it raises ToolStateError and changes nothing.
ResetWithToolsLoaded ==
    [][last'.op = "manager.reset" =>
         IF \E i \in DOMAIN tools_list : tools_list[i] # NoTool
         THEN last'.err = NoErr /\ ManagerEmpty'
         ELSE /\ last'.err = Err("ToolStateError", "no tools to unload")
              /\ UNCHANGED mgrvars]_vars

-----------------------------------------------------------------------------
(* C39 *)

\* C39: after any sequence of load_tool, change_tool, unload_tool,
\* unload_all_tools, set_active_tool, set_active_tool_by_name, pickup_tool,
\* park_active_tool and reset, whether they return or raise,
\* active_tool_index is None or the index of a slot that holds a tool.
C39_ActiveToolIsLoaded ==
    \/ IsNone(active_tool_index)
    \/ /\ InBounds(Val(active_tool_index))
       /\ tools_list[Val(active_tool_index)] # NoTool

\* C39 witness: the other tools were unloaded one by one and the active
\* tool stayed in its slot.
C39_Witness ==
    /\ last.op = "unload_tool" /\ last.err = NoErr
    /\ ~IsNone(active_tool_index)
    /\ active_tool_index # last.index
    /\ tools_list[Val(active_tool_index)] # NoTool

\* The tool in the active slot was replaced: the index stays active.
ActiveSlotChanged ==
    /\ last.op = "change_tool" /\ last.err = NoErr
    /\ active_tool_index = last.index

-----------------------------------------------------------------------------
(* C40 *)

\* active_tool_index tells whether a tool is locked on the head.
ActiveTellsLocked == (mounted # {}) <=> ~IsNone(active_tool_index)

\* C40: pickup_tool and park_active_tool, whether they return or raise,
\* keep active_tool_index telling whether a tool is locked on the head.
C40_ActiveTracksLock ==
    [][(/\ ~simulated
        /\ last'.op \in {"pickup_tool", "park_active_tool"}
        /\ ActiveTellsLocked) => ActiveTellsLocked']_vars

\* pickup_tool raised after the lock macro ran: a tool is on the head and
\* active_tool_index is None, so the next pickup_tool passes its guard.
LockedButNotActive ==
    /\ last.op = "pickup_tool" /\ last.err.cls = "JubileeCommunicationError"
    /\ \E i \in Wire(last.log) : last.log[i].c = ToolLock
    /\ mounted # {} /\ IsNone(active_tool_index)

\* park_active_tool raised after the unlock macro ran: nothing is on the
\* head and the parked tool is still the active one.
UnlockedButActive ==
    /\ last.op = "park_active_tool" /\ last.err.cls = "JubileeCommunicationError"
    /\ \E i \in Wire(last.log) : last.log[i].c = ToolUnlock
    /\ mounted = {} /\ ~IsNone(active_tool_index)

\* What holds: a pickup_tool or park_active_tool that returns, or that
\* raises before its macro was sent, keeps the two in step.
TracksLockUnlessMacroRan ==
    [][(/\ ~simulated
        /\ last'.op \in {"pickup_tool", "park_active_tool"}
        /\ ActiveTellsLocked
        /\ \/ last'.err = NoErr
           \/ \A i \in Wire(last'.log) :
                 last'.log[i].c \notin {ToolLock, ToolUnlock})
         => ActiveTellsLocked']_vars

-----------------------------------------------------------------------------
(* C37 *)

\* C37: a connect() that fails after it made its session leaves the
\* controller without a session.
C37_FailedConnectDisconnects ==
    [][(/\ Calls("connect") /\ session = "None"
        /\ SessionMade(last'.log) /\ last'.err # NoErr)
         => session' = "None"]_vars

\* connect() made a session, its homing query was never answered, and it
\* raised JubileeCommunicationError with the session in place.
FailedConnectKeepsSession ==
    /\ last.op = "connect"
    /\ last.err = Err("JubileeCommunicationError", "connect")
    /\ SessionMade(last.log)
    /\ HomedReplies(last.log) = {}
    /\ session = "open"

\* What holds: connect() leaves a session behind whenever it made one, and
\* every connect() on a controller with a session returns at once.
SessionStaysOnceMade ==
    [][Calls("connect") =>
         /\ SessionMade(last'.log) => session' = "open"
         /\ session = "open" => (last'.log = <<>> /\ last'.err = NoErr)]_vars

-----------------------------------------------------------------------------
(* C38 *)

\* The cached positioning flag is the mode the board is in.
ModeAgrees == absolute_positioning = board_abs
ModeOps == {"connect", "move_to", "move", "home_xyu"}

\* C38: connect, move_to, move and home_xyu, whether they return or raise,
\* keep the cached _absolute_positioning equal to the board's mode.
C38_CachedModeIsBoardMode ==
    [][(~simulated /\ last'.op \in ModeOps /\ ModeAgrees) => ModeAgrees']_vars

\* move() raised because the reply to its G91 never came; the board had
\* run the G91, the flag still says absolute.
ModeChangedReplyLost ==
    /\ ~simulated /\ last.op = "move"
    /\ last.err.cls = "JubileeCommunicationError"
    /\ Len(last.log) = 1
    /\ last.log[1].c = G91 /\ last.log[1].st = "noreply"
    /\ absolute_positioning /\ ~board_abs

\* What holds: a call that returns, and a call none of whose mode commands
\* went unanswered, keeps the flag equal to the board's mode.
ModeAgreesWhenAnswered ==
    [][(/\ ~simulated /\ last'.op \in ModeOps /\ ModeAgrees
        /\ \A i \in Wire(last'.log) :
              last'.log[i].c \in {G90, G91} => last'.log[i].st # "noreply")
         => ModeAgrees']_vars
=============================================================================
